---- MODULE Spec2Model ----
(***************************************************************************)
(* Price refresh and portfolio snapshot pipeline of the stock / fund       *)
(* profit tracker: the cron refresh endpoint (api/cron/update-prices),     *)
(* the position endpoint (api/position) with its detached background       *)
(* task, and the three D1 tables positions, price_cache, portfolio_cache.  *)
(*                                                                         *)
(* Numbers.  JavaScript numbers are modelled as exact rationals            *)
(* [type, num, den] with den > 0; NaN is 0/0.  Floating-point rounding is  *)
(* not modelled.  Table columns costPrice, shares and price hold integers  *)
(* (amounts in a fixed minor unit).                                        *)
(*                                                                         *)
(* Codes are sequences of characters, so that the classification regex is  *)
(* computed on the text of the code.                                       *)
(***************************************************************************)
EXTENDS Integers, Sequences, FiniteSets, TLC

VARIABLES
    positions,        \* table positions: sequence of rows, in rowid order
    price_cache,      \* table price_cache: function code -> [price, updatedAt], one row per key
    portfolio_cache,  \* table portfolio_cache: <<>> or <<row 'main'>>
    snapshotRead,     \* history: the stores as read by the recompute that wrote portfolio_cache
    cron,             \* the refresh request being handled (GET /api/cron/update-prices)
    task,             \* the position request being handled and its background task
    reader,           \* the snapshot read being handled (GET /api/portfolio)
    clock,            \* the time new Date() gives, in ticks
    priceCache,       \* the in-memory Map of services/price-cache.ts: code -> [price, timestamp]
    lookup,           \* history: the last call on the in-memory cache and what it returned
    earlier           \* the background task of an earlier save, still running

vars == <<positions, price_cache, portfolio_cache, snapshotRead, cron, task, reader, clock,
          priceCache, lookup, earlier>>

(***************************************************************************)
(* Bounds of the model                                                     *)
(***************************************************************************)
MaxPrice == 2     \* fetched and cached prices range over 0..MaxPrice
MaxCost == 2      \* cost bases of stored positions range up to MaxCost
MaxShares == 2    \* share counts of stored positions range up to MaxShares

(***************************************************************************)
(* Security codes                                                          *)
(***************************************************************************)
FUND_A == <<"6", "0", "0", "5", "1", "9">>
STOCK_A == <<"s", "h", "6", "0", "0", "5", "1", "9">>
STOCK_B == <<"0", "0", "7", "0", "0">>
Codes == {FUND_A, STOCK_A, STOCK_B}

Digits == {"0", "1", "2", "3", "4", "5", "6", "7", "8", "9"}

\* /^\d{6}$/.test(code)
isFundCode(code) ==
    /\ Len(code) = 6
    /\ \A i \in 1..Len(code) : code[i] \in Digits

(***************************************************************************)
(* JavaScript values: null and numbers                                     *)
(***************************************************************************)
Null == [type |-> "null", num |-> 0, den |-> 1]
NaN == [type |-> "number", num |-> 0, den |-> 0]

RECURSIVE GCD(_, _)
GCD(a, b) == IF b = 0 THEN a ELSE GCD(b, a % b)

Abs(x) == IF x < 0 THEN -x ELSE x

\* the number n/d, d # 0, in lowest terms with a positive denominator
Rat(n, d) ==
    LET g == GCD(Abs(n), Abs(d))
        s == IF d < 0 THEN -1 ELSE 1
    IN  [type |-> "number", num |-> (s * n) \div g, den |-> (s * d) \div g]

Num(n) == [type |-> "number", num |-> n, den |-> 1]

IsFinite(x) == x.type = "number" /\ x.den > 0

\* a * b, a - b, a + b, a / b on numbers; NaN operands give NaN
JsMul(a, b) ==
    IF IsFinite(a) /\ IsFinite(b) THEN Rat(a.num * b.num, a.den * b.den) ELSE NaN

JsSub(a, b) ==
    IF IsFinite(a) /\ IsFinite(b)
    THEN Rat(a.num * b.den - b.num * a.den, a.den * b.den)
    ELSE NaN

JsAdd(a, b) ==
    IF IsFinite(a) /\ IsFinite(b)
    THEN Rat(a.num * b.den + b.num * a.den, a.den * b.den)
    ELSE NaN

\* x / 0 is +-Infinity or NaN; it is kept as NaN here, the handlers divide
\* only under the guard totalCost > 0
JsDiv(a, b) ==
    IF IsFinite(a) /\ IsFinite(b) /\ b.num # 0
    THEN Rat(a.num * b.den, a.den * b.num)
    ELSE NaN

\* x > 0 (false for NaN)
JsGtZero(x) == IsFinite(x) /\ x.num > 0

\* typeof x === 'number' (true for NaN)
TypeofNumber(x) == x.type = "number"

\* JSON.stringify of a number or null: NaN and Infinity are written as null
JsonNumber(x) == IF x.type = "number" /\ x.den = 0 THEN Null ELSE x

(***************************************************************************)
(* JavaScript values: null and strings (display names)                     *)
(***************************************************************************)
NullName == [type |-> "null", str |-> ""]
Str(s) == [type |-> "string", str |-> s]

\* if (name): null and the empty string are falsy
Truthy(name) == name.type = "string" /\ name.str # ""

OLD_NAME == "stored name"
NEW_NAME == "quoted name"

(***************************************************************************)
(* Sequence helpers                                                        *)
(***************************************************************************)
Range(s) == {s[i] : i \in 1..Len(s)}

(***************************************************************************)
(* In-memory price cache (lib/services/price-cache.ts)                     *)
(***************************************************************************)
\* the cache validity in milliseconds
CACHE_TTL == 30 * 1000

\* Date.now() in milliseconds: one tick of the clock is ten seconds
MillisPerTick == 10 * 1000
DateNow(t) == t * MillisPerTick

Expired_atTtl(now, timestamp) == now - timestamp >= CACHE_TTL

\* Date.now() - cached.timestamp > CACHE_TTL
Expired(now, timestamp) == now - timestamp > CACHE_TTL

\* getCachedPrice: the value returned, a number or null
getCachedPrice(cache, code, now) ==
    IF code \notin DOMAIN cache THEN Null
    ELSE IF Expired(now, cache[code].timestamp) THEN Null
    ELSE Num(cache[code].price)

\* getCachedPrice: the Map after the call; an expired entry is deleted
AfterGetCachedPrice(cache, code, now) ==
    IF code \in DOMAIN cache /\ Expired(now, cache[code].timestamp)
    THEN [c \in DOMAIN cache \ {code} |-> cache[c]]
    ELSE cache

\* setCachedPrice: priceCache.set(code, { price, timestamp: Date.now() })
setCachedPrice(cache, code, price, now) ==
    [c \in DOMAIN cache \cup {code} |->
        IF c = code THEN [price |-> price, timestamp |-> now] ELSE cache[c]]

\* getBatchCachedPrices: result.set(code, getCachedPrice(code)) for each code
\* of the list in turn; the Map returned
RECURSIVE getBatchCachedPrices(_, _, _)
getBatchCachedPrices(cache, codes, now) ==
    IF codes = <<>> THEN <<>>
    ELSE LET rest == getBatchCachedPrices(AfterGetCachedPrice(cache, Head(codes), now),
                                          Tail(codes), now)
         IN  [c \in DOMAIN rest \cup {Head(codes)} |->
                 IF c \in DOMAIN rest THEN rest[c]
                 ELSE getCachedPrice(cache, Head(codes), now)]

\* getBatchCachedPrices: the Map of the module after the call
RECURSIVE AfterGetBatch(_, _, _)
AfterGetBatch(cache, codes, now) ==
    IF codes = <<>> THEN cache
    ELSE AfterGetBatch(AfterGetCachedPrice(cache, Head(codes), now), Tail(codes), now)

NoLookup == [op |-> "", codes |-> <<>>, at |-> 0, had |-> <<>>, result |-> <<>>]

(***************************************************************************)
(* Storage layer (lib/db.ts): reads                                        *)
(***************************************************************************)
\* SELECT stockCode FROM positions
\* variant of getAllPositionCodes: every code is listed twice
getAllPositionCodes_doubled(pos) ==
    [i \in 1..Len(pos) |-> pos[i].stockCode] \o [i \in 1..Len(pos) |-> pos[i].stockCode]

getAllPositionCodes(pos) == [i \in 1..Len(pos) |-> pos[i].stockCode]

\* SELECT ... WHERE stockCode = ? / WHERE code = ?  .first()
HasPosition(pos, code) == \E i \in 1..Len(pos) : pos[i].stockCode = code
HasPrice(cache, code) == code \in DOMAIN cache

\* getAllPositions: SELECT * FROM positions ORDER BY updatedAt DESC; the
\* listings the statement can return (rows of equal updatedAt in any order)
getAllPositions(pos) ==
    {[i \in 1..Len(pos) |-> pos[f[i]]] :
        f \in {g \in [1..Len(pos) -> 1..Len(pos)] :
                  /\ \A i, j \in 1..Len(pos) : g[i] = g[j] => i = j
                  /\ \A i, j \in 1..Len(pos) :
                        i < j => pos[g[i]].updatedAt >= pos[g[j]].updatedAt}}

\* getBatchCachedPricesFromDb: SELECT * FROM price_cache WHERE code IN (...);
\* the Map built from the rows (empty for an empty list)
getBatchCachedPricesFromDb(cache, codes) ==
    [c \in {x \in Range(codes) : HasPrice(cache, x)} |->
        [code |-> c, price |-> cache[c].price, updatedAt |-> cache[c].updatedAt]]

\* getCachedPriceFromDb: SELECT * FROM price_cache WHERE code = ?  .first(),
\* as a sequence of 0 or 1 results
getCachedPriceFromDb(cache, code) ==
    IF HasPrice(cache, code)
    THEN <<[code |-> code, price |-> cache[code].price, updatedAt |-> cache[code].updatedAt]>>
    ELSE <<>>

\* SELECT p.id, p.stockCode, p.stockName, p.costPrice, p.shares, c.price as cachedPrice
\* FROM positions p LEFT JOIN price_cache c ON p.stockCode = c.code
getAllPositionsWithPrices_coalesce(pos, cache) ==
    [i \in 1..Len(pos) |->
        [id |-> pos[i].id,
         stockCode |-> pos[i].stockCode,
         stockName |-> pos[i].stockName,
         costPrice |-> pos[i].costPrice,
         shares |-> pos[i].shares,
         cachedPrice |-> IF HasPrice(cache, pos[i].stockCode)
                         THEN Num(cache[pos[i].stockCode].price)
                         ELSE Num(0)]]

\* variant of getAllPositionsWithPrices: an inner join, positions without a
\* cached price are left out
getAllPositionsWithPrices_innerJoin(pos, cache) ==
    LET RECURSIVE Joined(_)
        Joined(i) ==
            IF i > Len(pos) THEN <<>>
            ELSE (IF HasPrice(cache, pos[i].stockCode)
                  THEN <<[id |-> pos[i].id,
                          stockCode |-> pos[i].stockCode,
                          stockName |-> pos[i].stockName,
                          costPrice |-> pos[i].costPrice,
                          shares |-> pos[i].shares,
                          cachedPrice |-> Num(cache[pos[i].stockCode].price)]>>
                  ELSE <<>>) \o Joined(i + 1)
    IN  Joined(1)

getAllPositionsWithPrices(pos, cache) ==
    [i \in 1..Len(pos) |->
        [id |-> pos[i].id,
         stockCode |-> pos[i].stockCode,
         stockName |-> pos[i].stockName,
         costPrice |-> pos[i].costPrice,
         shares |-> pos[i].shares,
         cachedPrice |-> IF HasPrice(cache, pos[i].stockCode)
                         THEN Num(cache[pos[i].stockCode].price)
                         ELSE Null]]

(***************************************************************************)
(* Storage layer: writes, one operator per SQL statement                   *)
(***************************************************************************)
\* UPDATE positions SET stockName = ? WHERE stockCode = ?
updatePositionName(pos, code, name) ==
    [i \in 1..Len(pos) |->
        IF pos[i].stockCode = code THEN [pos[i] EXCEPT !.stockName = name] ELSE pos[i]]

PriceUpdate_keepStamp(cache, code, price, now) ==
    IF HasPrice(cache, code)
    THEN [cache EXCEPT ![code] = [price |-> price, updatedAt |-> cache[code].updatedAt]]
    ELSE cache

\* UPDATE price_cache SET price = ?, updatedAt = ? WHERE code = ?   (no row:
\* nothing changes)
PriceUpdate(cache, code, price, now) ==
    IF HasPrice(cache, code)
    THEN [cache EXCEPT ![code] = [price |-> price, updatedAt |-> now]]
    ELSE cache

\* variant of PriceInsert: the table is emptied before the row is inserted
PriceInsert_onlyRow(cache, code, price, now) ==
    [c \in {code} |-> [price |-> price, updatedAt |-> now]]

\* INSERT INTO price_cache (code, price, updatedAt) VALUES (?, ?, ?)
PriceInsert(cache, code, price, now) ==
    [c \in DOMAIN cache \cup {code} |->
        IF c = code THEN [price |-> price, updatedAt |-> now] ELSE cache[c]]

\* price REAL NOT NULL: a NaN is bound as NULL and the statement is rejected;
\* code TEXT PRIMARY KEY: an INSERT of a key that has a row is rejected
PriceWriteRejected(cache, code, price, existing) ==
    \/ ~IsFinite(price)
    \/ ~existing /\ HasPrice(cache, code)

\* the UPDATE or INSERT chosen by the preceding SELECT
PriceWrite(cache, code, price, existing, now) ==
    IF existing THEN PriceUpdate(cache, code, price.num, now)
    ELSE PriceInsert(cache, code, price.num, now)

(***************************************************************************)
(* Aggregation: updatePortfolioCache, the part between the read and the    *)
(* save                                                                    *)
(***************************************************************************)
PortfolioItem_fraction(position) ==
    LET currentPrice == position.cachedPrice
        totalCost == JsMul(Num(position.costPrice), Num(position.shares))
        marketValue == IF currentPrice # Null
                       THEN JsMul(currentPrice, Num(position.shares))
                       ELSE Null
        profit == IF marketValue # Null THEN JsSub(marketValue, totalCost) ELSE Null
        profitPercent == IF profit # Null /\ JsGtZero(totalCost)
                         THEN JsDiv(profit, totalCost)
                         ELSE Null
    IN  [id |-> position.id,
         code |-> position.stockCode,
         name |-> position.stockName,
         assetType |-> IF isFundCode(position.stockCode) THEN "fund" ELSE "stock",
         costPrice |-> position.costPrice,
         shares |-> position.shares,
         currentPrice |-> currentPrice,
         totalCost |-> totalCost,
         marketValue |-> marketValue,
         profit |-> profit,
         profitPercent |-> profitPercent]

PortfolioItem(position) ==
    LET currentPrice == position.cachedPrice
        totalCost == JsMul(Num(position.costPrice), Num(position.shares))
        marketValue == IF currentPrice # Null
                       THEN JsMul(currentPrice, Num(position.shares))
                       ELSE Null
        profit == IF marketValue # Null THEN JsSub(marketValue, totalCost) ELSE Null
        profitPercent == IF profit # Null /\ JsGtZero(totalCost)
                         THEN JsMul(JsDiv(profit, totalCost), Num(100))
                         ELSE Null
    IN  [id |-> position.id,
         code |-> position.stockCode,
         name |-> position.stockName,
         assetType |-> IF isFundCode(position.stockCode) THEN "fund" ELSE "stock",
         costPrice |-> position.costPrice,
         shares |-> position.shares,
         currentPrice |-> currentPrice,
         totalCost |-> totalCost,
         marketValue |-> marketValue,
         profit |-> profit,
         profitPercent |-> profitPercent]

SummaryStep_pricedOnly(acc, item) ==
    [acc EXCEPT
        !.totalCost = IF item.marketValue # Null THEN JsAdd(@, item.totalCost) ELSE @,
        !.totalMarketValue = IF item.marketValue # Null THEN JsAdd(@, item.marketValue) ELSE @,
        !.totalProfit = IF item.profit # Null THEN JsAdd(@, item.profit) ELSE @]

\* the reducer of items.reduce(...)
SummaryStep(acc, item) ==
    [acc EXCEPT
        !.totalCost = JsAdd(@, item.totalCost),
        !.totalMarketValue = IF item.marketValue # Null THEN JsAdd(@, item.marketValue) ELSE @,
        !.totalProfit = IF item.profit # Null THEN JsAdd(@, item.profit) ELSE @]

SummaryZero ==
    [totalCost |-> Num(0), totalMarketValue |-> Num(0),
     totalProfit |-> Num(0), totalProfitPercent |-> Num(0)]

RECURSIVE Reduce(_, _, _)
Reduce(items, i, acc) ==
    IF i > Len(items) THEN acc ELSE Reduce(items, i + 1, SummaryStep(acc, items[i]))

PortfolioSummary(items) ==
    LET summary == Reduce(items, 1, SummaryZero)
    IN  IF JsGtZero(summary.totalCost)
        THEN [summary EXCEPT !.totalProfitPercent =
                  JsMul(JsDiv(summary.totalProfit, summary.totalCost), Num(100))]
        ELSE summary

\* the object handed to savePortfolioCache
PortfolioData(positionsWithPrices) ==
    LET items == [i \in 1..Len(positionsWithPrices) |-> PortfolioItem(positionsWithPrices[i])]
    IN  [items |-> items,
         summary |-> PortfolioSummary(items),
         hasPrices |-> \E i \in 1..Len(items) : items[i].currentPrice # Null]

\* JSON.stringify(data): the text stored in portfolio_cache.data, kept as the
\* value JSON.parse gives back
JsonItem(item) ==
    [item EXCEPT
        !.currentPrice = JsonNumber(@),
        !.totalCost = JsonNumber(@),
        !.marketValue = JsonNumber(@),
        !.profit = JsonNumber(@),
        !.profitPercent = JsonNumber(@)]

JsonStringify(data) ==
    [items |-> [i \in 1..Len(data.items) |-> JsonItem(data.items[i])],
     summary |-> [f \in DOMAIN data.summary |-> JsonNumber(data.summary[f])],
     hasPrices |-> data.hasPrices]

\* UPDATE portfolio_cache SET data = ? WHERE id = 'main'
\* INSERT INTO portfolio_cache (id, data, updatedAt) VALUES ('main', ?, ?)
SnapshotWriteRejected(table, existing) == ~existing /\ table # <<>>

\* variant of SnapshotWrite: the UPDATE keeps the items of the stored row
\* in front of the new ones
SnapshotWrite_merge(table, jsonData, existing, now) ==
    IF existing
    THEN [i \in 1..Len(table) |->
             [table[i] EXCEPT !.data = [jsonData EXCEPT !.items = table[i].data.items \o @],
                              !.updatedAt = now]]
    ELSE <<[id |-> "main", data |-> jsonData, updatedAt |-> now]>>

\* variant of SnapshotWrite: the UPDATE puts the items of the stored row
\* behind the new ones
SnapshotWrite_appendStored(table, jsonData, existing, now) ==
    IF existing
    THEN [i \in 1..Len(table) |->
             [table[i] EXCEPT !.data = [jsonData EXCEPT !.items = @ \o table[i].data.items],
                              !.updatedAt = now]]
    ELSE <<[id |-> "main", data |-> jsonData, updatedAt |-> now]>>

\* UPDATE portfolio_cache SET data = ?, updatedAt = ? WHERE id = 'main'
\* INSERT INTO portfolio_cache (id, data, updatedAt) VALUES ('main', ?, ?)
SnapshotWrite(table, jsonData, existing, now) ==
    IF existing
    THEN [i \in 1..Len(table) |-> [table[i] EXCEPT !.data = jsonData, !.updatedAt = now]]
    ELSE <<[id |-> "main", data |-> jsonData, updatedAt |-> now]>>

(***************************************************************************)
(* Clock.  A Date is an instant: minutes since Sunday 00:00 UTC, within    *)
(* one week.  A wall reading is [day, minute] on the Asia/Shanghai clock   *)
(* (UTC+8, no daylight saving), day 0 = Sunday.                            *)
(***************************************************************************)
MinutesPerDay == 24 * 60
MinutesPerWeek == 7 * MinutesPerDay
ShanghaiOffset == 8 * 60

WallReadings == [day : 0..6, minute : 0..(MinutesPerDay - 1)]

\* the instant at which the Shanghai clock shows the reading
InstantOf(wall) ==
    (wall.day * MinutesPerDay + wall.minute - ShanghaiOffset) % MinutesPerWeek

\* a clock read one minute later
NextMinute(wall) ==
    IF wall.minute + 1 < MinutesPerDay
    THEN [wall EXCEPT !.minute = @ + 1]
    ELSE [day |-> (wall.day + 1) % 7, minute |-> 0]

\* new Date(now.toLocaleString("en-US", { timeZone: "Asia/Shanghai" })):
\* a Date whose local fields are the Shanghai wall-clock fields of now
beijingTime(now) ==
    LET t == (now + ShanghaiOffset) % MinutesPerWeek
    IN  [getDay |-> t \div MinutesPerDay,
         getHours |-> (t % MinutesPerDay) \div 60,
         getMinutes |-> t % 60]

\* variant of isStockTradingTime: the sessions exclude their closing minute
isStockTradingTime_exclusiveClose(now) ==
    LET bt == beijingTime(now)
        totalMinutes == bt.getHours * 60 + bt.getMinutes
        isMorningSession == totalMinutes >= 570 /\ totalMinutes < 690
        isAfternoonSession == totalMinutes >= 780 /\ totalMinutes < 900
        isWeekend == bt.getDay = 0 \/ bt.getDay = 6
    IN  ~isWeekend /\ (isMorningSession \/ isAfternoonSession)

isStockTradingTime(now) ==
    LET bt == beijingTime(now)
        totalMinutes == bt.getHours * 60 + bt.getMinutes
        isMorningSession == totalMinutes >= 570 /\ totalMinutes <= 690
        isAfternoonSession == totalMinutes >= 780 /\ totalMinutes <= 900
        isWeekend == bt.getDay = 0 \/ bt.getDay = 6
    IN  ~isWeekend /\ (isMorningSession \/ isAfternoonSession)

\* variant of shouldUpdateFundPrice: the window ends at 23:00
shouldUpdateFundPrice_until23(now) ==
    LET hours == beijingTime(now).getHours
    IN  hours >= 20 /\ hours < 23

shouldUpdateFundPrice(now) ==
    LET hours == beijingTime(now).getHours
    IN  hours >= 20 /\ hours <= 23

(***************************************************************************)
(* Refresh policy: the loop that fills codesToUpdate                       *)
(***************************************************************************)
TypeFilters == {"stock", "fund", "null"}

\* variant of SelectsCode: force is tested before the type filter
SelectsCode_forceFirst(code, typeFilter, forceUpdate, isTrading, shouldUpdateFund) ==
    LET isFund == isFundCode(code)
    IN  IF forceUpdate THEN TRUE
        ELSE IF typeFilter = "stock" /\ isFund THEN FALSE
        ELSE IF typeFilter = "fund" /\ ~isFund THEN FALSE
        ELSE IF isFund /\ shouldUpdateFund THEN TRUE
        ELSE IF ~isFund /\ isTrading THEN TRUE
        ELSE FALSE

SelectsCode(code, typeFilter, forceUpdate, isTrading, shouldUpdateFund) ==
    LET isFund == isFundCode(code)
    IN  IF typeFilter = "stock" /\ isFund THEN FALSE
        ELSE IF typeFilter = "fund" /\ ~isFund THEN FALSE
        ELSE IF forceUpdate THEN TRUE
        ELSE IF isFund /\ shouldUpdateFund THEN TRUE
        ELSE IF ~isFund /\ isTrading THEN TRUE
        ELSE FALSE

RECURSIVE CodesToUpdate(_, _, _, _, _)
CodesToUpdate(allCodes, typeFilter, forceUpdate, isTrading, shouldUpdateFund) ==
    IF allCodes = <<>> THEN <<>>
    ELSE (IF SelectsCode(Head(allCodes), typeFilter, forceUpdate, isTrading, shouldUpdateFund)
          THEN <<Head(allCodes)>> ELSE <<>>)
         \o CodesToUpdate(Tail(allCodes), typeFilter, forceUpdate, isTrading, shouldUpdateFund)

(***************************************************************************)
(* Quote adapters and fetchAssetPriceAndName                               *)
(***************************************************************************)
\* what a call of fetchStockQuote / fetchFundData can end in.
\*   "throws": the call throws (both adapters catch internally, the caller
\*             still guards with try/catch)
\*   "none":   fetchStockQuote returns null, fetchFundData returns {quote: null}
\*   "quote":  a quote; currentPrice is parseFloat of a field (NaN when it is
\*             not a number), netWorth is the last point of the trend (null
\*             when the point carries none); the name may be empty
StockQuotes ==
    [kind : {"quote"},
     price : {NaN} \cup {Num(p) : p \in 0..MaxPrice},
     name : {Str(""), Str(NEW_NAME)}]

FundQuotes ==
    [kind : {"quote"},
     price : {Null} \cup {Num(p) : p \in 0..MaxPrice},
     name : {Str(NEW_NAME)}]

\* fetchFundData when the response carries no net-worth trend (no match, an
\* empty list, or a list that does not parse): latestNetWorth keeps its
\* initial value 0 and the quote is returned with netWorth 0
FundNoTrend == [kind : {"noTrend"}, price : {Num(0)}, name : {Str(NEW_NAME)}]

NoQuotes == [kind : {"throws", "none"}, price : {Null}, name : {NullName}]

\* variant of AdapterOf: any all-digit code goes to the fund adapter
AdapterOf_anyDigits(code) ==
    IF \A i \in 1..Len(code) : code[i] \in Digits THEN "fetchFundData" ELSE "fetchStockQuote"

\* the adapter fetchAssetPriceAndName calls: if (isFundCode(code)) fetchFundData
\* else fetchStockQuote
AdapterOf(code) ==
    IF isFundCode(code) THEN "fetchFundData" ELSE "fetchStockQuote"

AdapterOutcomes(code) ==
    NoQuotes \cup (IF AdapterOf(code) = "fetchFundData" THEN FundQuotes ELSE StockQuotes)

\* quote?.currentPrice ?? null, quote?.name ?? null; the catch gives nulls
fetchAssetPriceAndName(code, outcome) ==
    IF outcome.kind = "throws" THEN [price |-> Null, name |-> NullName]
    ELSE IF outcome.kind = "none" THEN [price |-> Null, name |-> NullName]
    ELSE [price |-> outcome.price, name |-> outcome.name]

\* variant of IsValidPrice: every result is taken as a price
IsValidPrice_unfiltered(price) == TRUE

\* price !== null && typeof price === 'number'
IsValidPrice(price) == price # Null /\ TypeofNumber(price)

(***************************************************************************)
(* GET /api/cron/update-prices                                             *)
(***************************************************************************)
NoData == [items |-> <<>>, summary |-> SummaryZero, hasPrices |-> FALSE]
NoRead == [done |-> FALSE, positions |-> <<>>, price_cache |-> <<>>]
NoResponse == [status |-> 0, success |-> FALSE, kind |-> "", updated |-> <<>>, failed |-> <<>>]

Sunday0 == [day |-> 0, minute |-> 0]

\* cronSecret, authHeader: process.env.CRON_SECRET and the authorization
\* header of the request, in the specifications that fix them beforehand
CronIdle ==
    [pc |-> "idle",
     cronSecret |-> FALSE, authHeader |-> "absent",
     forceUpdate |-> FALSE, typeFilter |-> "null",
     wallStock |-> Sunday0, wallFund |-> Sunday0,
     isTrading |-> FALSE, shouldUpdateFund |-> FALSE,
     allCodes |-> <<>>, codesToUpdate |-> <<>>,
     pending |-> {}, via |-> <<>>, adapter |-> <<>>, priceResults |-> <<>>,
     i |-> 0, validPrices |-> <<>>, existing |-> FALSE, now |-> 0,
     data |-> NoData, read |-> NoRead,
     before |-> <<>>, storageError |-> FALSE,
     response |-> NoResponse]

Response(status, success, kind, updated, failed) ==
    [status |-> status, success |-> success, kind |-> kind,
     updated |-> updated, failed |-> failed]

\* variant of NoPositionsResponse: one update is reported
NoPositionsResponse_oneUpdate == Response(200, TRUE, "no positions", <<1>>, <<>>)

\* the tracked set is empty: { success, message, updated: 0 }
NoPositionsResponse == Response(200, TRUE, "no positions", <<0>>, <<>>)

NothingDueResponse_zeroUpdate == Response(200, TRUE, "updated", <<0>>, <<0>>)

\* no code is due: { success, message, isStockTradingTime, shouldUpdateFund,
\* updated: 0 }, without the field failed
NothingDueResponse == Response(200, TRUE, "nothing due", <<0>>, <<>>)

\* the catch of the handler: status 500
CronFailed(c) ==
    [c EXCEPT !.pc = "done",
              !.response = Response(500, FALSE, "error", <<>>, <<>>)]

AuthHeaders == {"absent", "wrong", "match"}

\* variant of Unauthorized: only a request without the header is rejected
Unauthorized_absentOnly(secretSet, header) == secretSet /\ header = "absent"

\* cronSecret && authHeader !== `Bearer ${cronSecret}`
Unauthorized(secretSet, header) == secretSet /\ header # "match"

\* the request arrives: authorization, query parameters
CronArrives(secretSet, header, force, type) ==
    /\ cron.pc = "idle"
    /\ cron' = IF Unauthorized(secretSet, header)
                THEN [cron EXCEPT !.pc = "done",
                                  !.response = Response(401, FALSE, "Unauthorized", <<>>, <<>>)]
                ELSE [cron EXCEPT !.pc = "getCodes",
                                  !.forceUpdate = force, !.typeFilter = type,
                                  !.before = price_cache]
    /\ UNCHANGED <<earlier, positions, price_cache, portfolio_cache, snapshotRead, task, reader, clock, priceCache, lookup>>

\* the request arrives while no position request is being handled
CronRequest(secretSet, header, force, type) ==
    /\ task.pc = "idle"
    /\ CronArrives(secretSet, header, force, type)

\* getAllPositionCodes() returns; the clock is read twice; the loop selects
\* the codes; one fetch per selected code is started
CronGetCodes(wall1, wall2) ==
    /\ cron.pc = "getCodes"
    /\ LET allCodes == getAllPositionCodes(positions)
           isTrading == isStockTradingTime(InstantOf(wall1))
           shouldUpdateFund == shouldUpdateFundPrice(InstantOf(wall2))
           codesToUpdate == CodesToUpdate(allCodes, cron.typeFilter, cron.forceUpdate,
                                          isTrading, shouldUpdateFund)
           c == [cron EXCEPT !.allCodes = allCodes]
           d == [c EXCEPT !.wallStock = wall1, !.wallFund = wall2,
                          !.isTrading = isTrading, !.shouldUpdateFund = shouldUpdateFund,
                          !.codesToUpdate = codesToUpdate]
       IN  cron' = IF Len(allCodes) = 0
                   THEN [c EXCEPT !.pc = "done",
                                  !.response = NoPositionsResponse]
                   ELSE IF Len(codesToUpdate) = 0
                   THEN [d EXCEPT !.pc = "done",
                                  !.response = NothingDueResponse]
                   ELSE [d EXCEPT !.pc = "fetching", !.pending = Range(codesToUpdate),
                                  !.via = [k \in Range(codesToUpdate) |-> AdapterOf(k)]]
    /\ UNCHANGED <<earlier, positions, price_cache, portfolio_cache, snapshotRead, task, reader, clock, priceCache, lookup>>

\* variant of AllSettled: the handler resumes as soon as the fetch of the
\* first listed code has settled
AllSettled_firstListed(c, code) == code = c.codesToUpdate[1]

\* Promise.all: the fetch that settles is the last one pending
AllSettled(c, code) == c.pending = {code}

\* one of the concurrent fetches settles; when the last one has, Promise.all
\* resolves and the handler goes on with the loop over priceResults
CronFetchSettle(code, outcome) ==
    /\ cron.pc = "fetching"
    /\ code \in cron.pending
    /\ LET result == fetchAssetPriceAndName(code, outcome)
           settled == DOMAIN cron.priceResults \cup {code}
       IN  cron' = [cron EXCEPT
                       !.pending = @ \ {code},
                       !.adapter = [k \in settled |-> IF k = code THEN outcome ELSE cron.adapter[k]],
                       !.priceResults = [k \in settled |-> IF k = code THEN result
                                                           ELSE cron.priceResults[k]],
                       !.pc = IF AllSettled(cron, code) THEN "results" ELSE "fetching",
                       !.i = 1]
    /\ UNCHANGED <<earlier, positions, price_cache, portfolio_cache, snapshotRead, task, reader, clock, priceCache, lookup>>

\* variant of AfterResults: without a valid price the handler answers at
\* once, the snapshot is not recomputed
AfterResults_skipRecompute(c) ==
    IF Len(c.validPrices) > 0
    THEN [c EXCEPT !.pc = "batchSelect", !.i = 1]
    ELSE [c EXCEPT !.pc = "done",
                   !.response = [status |-> 200, success |-> TRUE, kind |-> "updated",
                                 updated |-> <<0>>, failed |-> <<Len(c.codesToUpdate)>>]]

\* where the handler goes after the loop over priceResults
AfterResults(c) ==
    IF Len(c.validPrices) > 0
    THEN [c EXCEPT !.pc = "batchSelect", !.i = 1]
    ELSE [c EXCEPT !.pc = "recompute"]

\* one iteration of the loop over priceResults: collect the valid price,
\* and await updatePositionName when a name came with the quote
CronResult ==
    /\ cron.pc = "results"
    /\ LET code == cron.codesToUpdate[cron.i]
           result == cron.priceResults[code]
           c == [cron EXCEPT
                    !.validPrices = IF IsValidPrice(result.price)
                                    THEN Append(@, [code |-> code, price |-> result.price])
                                    ELSE @,
                    !.i = @ + 1]
       IN  /\ positions' = IF Truthy(result.name)
                           THEN updatePositionName(positions, code, result.name.str)
                           ELSE positions
           /\ cron' = IF cron.i = Len(cron.codesToUpdate) THEN AfterResults(c) ELSE c
    /\ UNCHANGED <<earlier, price_cache, portfolio_cache, snapshotRead, task, reader, clock, priceCache, lookup>>

\* updateBatchCachedPrices: SELECT code FROM price_cache WHERE code = ?
CronBatchSelect ==
    /\ cron.pc = "batchSelect"
    /\ cron' = [cron EXCEPT !.existing = HasPrice(price_cache, cron.validPrices[cron.i].code),
                            !.now = IF cron.i = 1 THEN clock ELSE @,
                            !.pc = "batchWrite"]
    /\ UNCHANGED <<earlier, positions, price_cache, portfolio_cache, snapshotRead, task, reader, clock, priceCache, lookup>>

\* updateBatchCachedPrices: the UPDATE or INSERT; a rejected statement throws
CronBatchWrite ==
    /\ cron.pc = "batchWrite"
    /\ LET entry == cron.validPrices[cron.i]
       IN  IF PriceWriteRejected(price_cache, entry.code, entry.price, cron.existing)
           THEN /\ cron' = CronFailed(cron)
                /\ UNCHANGED price_cache
           ELSE /\ price_cache' = PriceWrite(price_cache, entry.code, entry.price, cron.existing, cron.now)
                /\ cron' = IF cron.i = Len(cron.validPrices)
                           THEN [cron EXCEPT !.pc = "recompute"]
                           ELSE [cron EXCEPT !.pc = "batchSelect", !.i = @ + 1]
    /\ UNCHANGED <<earlier, positions, portfolio_cache, snapshotRead, task, reader, clock, priceCache, lookup>>

\* updatePortfolioCache: getAllPositionsWithPrices() returns, items and
\* summary are computed
CronRecompute ==
    /\ cron.pc = "recompute"
    /\ cron' = [cron EXCEPT
                   !.data = PortfolioData(getAllPositionsWithPrices(positions, price_cache)),
                   !.read = [done |-> TRUE, positions |-> positions, price_cache |-> price_cache],
                   !.pc = "saveSelect"]
    /\ UNCHANGED <<earlier, positions, price_cache, portfolio_cache, snapshotRead, task, reader, clock, priceCache, lookup>>

\* savePortfolioCache: SELECT id FROM portfolio_cache WHERE id = 'main'
CronSaveSelect ==
    /\ cron.pc = "saveSelect"
    /\ cron' = [cron EXCEPT !.existing = (portfolio_cache # <<>>), !.now = clock,
                            !.pc = "saveWrite"]
    /\ UNCHANGED <<earlier, positions, price_cache, portfolio_cache, snapshotRead, task, reader, clock, priceCache, lookup>>

\* updated: validPrices.size, failed: codesToUpdate.length - validPrices.size
UpdatedCount(validPrices) == Len(validPrices)

\* variant of FailedCount: the successes are not subtracted
FailedCount_allEligible(codesToUpdate, validPrices) == Len(codesToUpdate)

FailedCount(codesToUpdate, validPrices) == Len(codesToUpdate) - Len(validPrices)

\* savePortfolioCache: the UPDATE or INSERT, then the success response
CronSaveWrite ==
    /\ cron.pc = "saveWrite"
    /\ IF SnapshotWriteRejected(portfolio_cache, cron.existing)
       THEN /\ cron' = CronFailed(cron)
            /\ UNCHANGED <<portfolio_cache, snapshotRead>>
       ELSE /\ portfolio_cache' =
                   SnapshotWrite(portfolio_cache, JsonStringify(cron.data), cron.existing, cron.now)
            /\ snapshotRead' = cron.read
            /\ cron' = [cron EXCEPT
                           !.pc = "done",
                           !.response = Response(200, TRUE, "updated",
                               <<UpdatedCount(cron.validPrices)>>,
                               <<FailedCount(cron.codesToUpdate, cron.validPrices)>>)]
    /\ UNCHANGED <<earlier, positions, price_cache, task, reader, clock, priceCache, lookup>>

\* the storage call the handler is waiting for fails (D1 unreachable): the
\* catch of the handler answers 500
CronAwaitsStorage ==
    \/ cron.pc \in {"getCodes", "batchSelect", "batchWrite", "recompute", "saveSelect", "saveWrite"}
    \/ /\ cron.pc = "results"
       /\ Truthy(cron.priceResults[cron.codesToUpdate[cron.i]].name)

CronStorageError ==
    /\ CronAwaitsStorage
    /\ cron' = [CronFailed(cron) EXCEPT !.storageError = TRUE]
    /\ UNCHANGED <<earlier, positions, price_cache, portfolio_cache, snapshotRead, task, reader, clock, priceCache, lookup>>

(***************************************************************************)
(* Storage layer: statements on the positions table                        *)
(***************************************************************************)
IdTokens == {"id-1", "id-2", "id-3", "id-4"}

\* generateId(): a token built from the time and a random number, here one
\* that no row carries
generateId(pos) == CHOOSE id \in IdTokens : \A i \in 1..Len(pos) : pos[i].id # id

\* UPDATE positions SET stockName = ?, costPrice = ?, shares = ?, updatedAt = ? WHERE stockCode = ?
PositionUpdate_replaceRow(pos, data, now) ==
    [i \in 1..Len(pos) |->
        IF pos[i].stockCode = data.stockCode
        THEN [pos[i] EXCEPT !.stockName = data.stockName,
                            !.costPrice = data.costPrice.num,
                            !.shares = data.shares.num,
                            !.createdAt = now,
                            !.updatedAt = now]
        ELSE pos[i]]

PositionUpdate(pos, data, now) ==
    [i \in 1..Len(pos) |->
        IF pos[i].stockCode = data.stockCode
        THEN [pos[i] EXCEPT !.stockName = data.stockName,
                            !.costPrice = data.costPrice.num,
                            !.shares = data.shares.num,
                            !.updatedAt = now]
        ELSE pos[i]]

\* INSERT INTO positions (id, stockCode, stockName, costPrice, shares, createdAt, updatedAt)
PositionInsert(pos, id, data, now) ==
    Append(pos, [id |-> id, stockCode |-> data.stockCode, stockName |-> data.stockName,
                 costPrice |-> data.costPrice.num, shares |-> data.shares.num,
                 createdAt |-> now, updatedAt |-> now])

\* costPrice REAL NOT NULL, shares REAL NOT NULL: a missing value is rejected;
\* stockCode TEXT UNIQUE: an INSERT of a code that has a row is rejected
PositionWriteRejected(pos, data, existing) ==
    \/ ~IsFinite(data.costPrice)
    \/ ~IsFinite(data.shares)
    \/ ~existing /\ HasPosition(pos, data.stockCode)

PositionWrite(pos, data, existing, now) ==
    IF existing THEN PositionUpdate(pos, data, now)
    ELSE PositionInsert(pos, generateId(pos), data, now)

\* the libSQL build of upsertPosition, one statement:
\* INSERT ... VALUES (COALESCE((SELECT id ...), ?), ..., COALESCE((SELECT createdAt ...), ?), ?)
\* ON CONFLICT(stockCode) DO UPDATE SET stockName, costPrice, shares, updatedAt
upsertOnConflict(pos, id, data, now) ==
    IF HasPosition(pos, data.stockCode)
    THEN [i \in 1..Len(pos) |->
             IF pos[i].stockCode = data.stockCode
             THEN [pos[i] EXCEPT !.stockName = data.stockName,
                                 !.costPrice = data.costPrice.num,
                                 !.shares = data.shares.num,
                                 !.updatedAt = now]
             ELSE pos[i]]
    ELSE Append(pos, [id |-> id, stockCode |-> data.stockCode, stockName |-> data.stockName,
                      costPrice |-> data.costPrice.num, shares |-> data.shares.num,
                      createdAt |-> now, updatedAt |-> now])

\* variant of touchPosition: the UPDATE has no WHERE clause
touchPosition_allRows(pos, code, now) ==
    [i \in 1..Len(pos) |-> [pos[i] EXCEPT !.updatedAt = now]]

\* UPDATE positions SET updatedAt = ? WHERE stockCode = ?
touchPosition(pos, code, now) ==
    [i \in 1..Len(pos) |->
        IF pos[i].stockCode = code THEN [pos[i] EXCEPT !.updatedAt = now] ELSE pos[i]]

\* SELECT * FROM positions WHERE stockCode = ?  .first(), as a sequence of 0 or 1 rows
PositionByCode(pos, code) ==
    IF HasPosition(pos, code)
    THEN <<pos[CHOOSE i \in 1..Len(pos) : pos[i].stockCode = code]>>
    ELSE <<>>

\* DELETE FROM positions WHERE stockCode = ?
RECURSIVE deletePosition(_, _)
deletePosition(pos, code) ==
    IF pos = <<>> THEN <<>>
    ELSE IF Head(pos).stockCode = code THEN deletePosition(Tail(pos), code)
    ELSE <<Head(pos)>> \o deletePosition(Tail(pos), code)

(***************************************************************************)
(* /api/position: POST and DELETE, each followed by a detached background  *)
(* task whose errors are logged                                            *)
(***************************************************************************)
\* fetchAssetPrice of api/position/route.ts: fundData.quote?.netWorth ?? null,
\* quote.currentPrice (a null quote throws into the catch)
fetchAssetPrice(code, outcome) ==
    IF outcome.kind = "throws" THEN Null
    ELSE IF outcome.kind = "none" THEN Null
    ELSE outcome.price

NoBody == [stockCode |-> <<>>, stockName |-> "", costPrice |-> Null, shares |-> Null]

TaskIdle ==
    [pc |-> "idle", op |-> "", body |-> NoBody,
     existing |-> FALSE, now |-> 0, price |-> Null,
     data |-> NoData, read |-> NoRead,
     storageError |-> FALSE, logged |-> FALSE,
     status |-> 0, result |-> <<>>]

\* the catch of the handler: status 500
TaskFailed(t) == [t EXCEPT !.pc = "done", !.status = 500]

\* variant of TaskBackgroundFailed: the error becomes the response
TaskBackgroundFailed_surfaced(t) == [t EXCEPT !.pc = "done", !.logged = TRUE, !.status = 500]

\* the catch of the background task: the error is logged
TaskBackgroundFailed(t) == [t EXCEPT !.pc = "done", !.logged = TRUE]

\* POST arrives with its JSON body
PostArrives(body) ==
    /\ task.pc = "idle"
    /\ task' = IF body.stockCode = <<>> \/ body.stockName = ""
               THEN [task EXCEPT !.pc = "done", !.op = "POST", !.body = body, !.status = 400]
               ELSE [task EXCEPT !.pc = "upsertSelect", !.op = "POST", !.body = body]
    /\ UNCHANGED <<earlier, positions, price_cache, portfolio_cache, snapshotRead, cron, reader, clock, priceCache, lookup>>

\* POST arrives while no refresh is running
PostRequest(body) ==
    /\ cron.pc = "idle"
    /\ PostArrives(body)

\* upsertPosition: SELECT id, createdAt FROM positions WHERE stockCode = ?
PostUpsertSelect ==
    /\ task.pc = "upsertSelect"
    /\ task' = [task EXCEPT !.existing = HasPosition(positions, task.body.stockCode),
                            !.now = clock,
                            !.pc = "upsertWrite"]
    /\ UNCHANGED <<earlier, positions, price_cache, portfolio_cache, snapshotRead, cron, reader, clock, priceCache, lookup>>

\* upsertPosition: the UPDATE or INSERT
PostUpsertWrite ==
    /\ task.pc = "upsertWrite"
    /\ IF PositionWriteRejected(positions, task.body, task.existing)
       THEN /\ task' = TaskFailed(task)
            /\ UNCHANGED positions
       ELSE /\ positions' = PositionWrite(positions, task.body, task.existing, task.now)
            /\ task' = [task EXCEPT !.pc = "upsertReturn"]
    /\ UNCHANGED <<earlier, price_cache, portfolio_cache, snapshotRead, cron, reader, clock, priceCache, lookup>>

\* upsertPosition of the libSQL build: the single upsert statement
PostUpsertOnConflict ==
    /\ task.pc = "upsertSelect"
    /\ IF ~IsFinite(task.body.costPrice) \/ ~IsFinite(task.body.shares)
       THEN /\ task' = TaskFailed(task)
            /\ UNCHANGED positions
       ELSE /\ positions' = upsertOnConflict(positions, generateId(positions), task.body, clock)
            /\ task' = [task EXCEPT !.now = clock, !.pc = "upsertReturn"]
    /\ UNCHANGED <<earlier, price_cache, portfolio_cache, snapshotRead, cron, reader, clock, priceCache, lookup>>

\* upsertPosition: SELECT * FROM positions WHERE stockCode = ?; the background
\* task is started and the response is sent
PostUpsertReturn ==
    /\ task.pc = "upsertReturn"
    /\ LET result == PositionByCode(positions, task.body.stockCode)
       IN  task' = IF result = <<>>
                   THEN TaskFailed(task)
                   ELSE [task EXCEPT !.pc = "bgFetch", !.status = 200, !.result = result]
    /\ UNCHANGED <<earlier, positions, price_cache, portfolio_cache, snapshotRead, cron, reader, clock, priceCache, lookup>>

\* variant of BackgroundNext: a fetch without a price ends the task
BackgroundNext_stopOnFailure(price) == IF price # Null THEN "bgPriceSelect" ELSE "done"

\* background: if (price !== null) await updateCachedPrice(...); then
\* await updatePortfolioCache()
BackgroundNext(price) == IF price # Null THEN "bgPriceSelect" ELSE "bgRecompute"

\* background: the fetch settles
BackgroundFetchSettle(outcome) ==
    /\ task.pc = "bgFetch"
    /\ LET price == fetchAssetPrice(task.body.stockCode, outcome)
       IN  task' = [task EXCEPT !.price = price,
                                !.pc = BackgroundNext(price)]
    /\ UNCHANGED <<earlier, positions, price_cache, portfolio_cache, snapshotRead, cron, reader, clock, priceCache, lookup>>

\* background, updateCachedPrice: SELECT code FROM price_cache WHERE code = ?
BackgroundPriceSelect ==
    /\ task.pc = "bgPriceSelect"
    /\ task' = [task EXCEPT !.existing = HasPrice(price_cache, task.body.stockCode),
                            !.now = clock,
                            !.pc = "bgPriceWrite"]
    /\ UNCHANGED <<earlier, positions, price_cache, portfolio_cache, snapshotRead, cron, reader, clock, priceCache, lookup>>

\* background, updateCachedPrice: the UPDATE or INSERT
BackgroundPriceWrite ==
    /\ task.pc = "bgPriceWrite"
    /\ IF PriceWriteRejected(price_cache, task.body.stockCode, task.price, task.existing)
       THEN /\ task' = TaskBackgroundFailed(task)
            /\ UNCHANGED price_cache
       ELSE /\ price_cache' = PriceWrite(price_cache, task.body.stockCode, task.price, task.existing, task.now)
            /\ task' = [task EXCEPT !.pc = "bgRecompute"]
    /\ UNCHANGED <<earlier, positions, portfolio_cache, snapshotRead, cron, reader, clock, priceCache, lookup>>

\* DELETE arrives with its stockCode parameter
DeleteRequest(code) ==
    /\ task.pc = "idle"
    /\ cron.pc = "idle"
    /\ task' = IF code = <<>>
               THEN [task EXCEPT !.pc = "done", !.op = "DELETE", !.status = 400]
               ELSE [task EXCEPT !.pc = "delete", !.op = "DELETE", !.body = [NoBody EXCEPT !.stockCode = code]]
    /\ UNCHANGED <<earlier, positions, price_cache, portfolio_cache, snapshotRead, cron, reader, clock, priceCache, lookup>>

\* deletePosition runs; the background task is started and the response is sent
DeleteRun ==
    /\ task.pc = "delete"
    /\ positions' = deletePosition(positions, task.body.stockCode)
    /\ task' = [task EXCEPT !.pc = "bgRecompute", !.status = 200]
    /\ UNCHANGED <<earlier, price_cache, portfolio_cache, snapshotRead, cron, reader, clock, priceCache, lookup>>

\* PATCH arrives with its stockCode parameter
TouchRequest(code) ==
    /\ task.pc = "idle"
    /\ cron.pc = "idle"
    /\ task' = IF code = <<>>
               THEN [task EXCEPT !.pc = "done", !.op = "PATCH", !.status = 400]
               ELSE [task EXCEPT !.pc = "touch", !.op = "PATCH", !.body = [NoBody EXCEPT !.stockCode = code]]
    /\ UNCHANGED <<earlier, positions, price_cache, portfolio_cache, snapshotRead, cron, reader, clock, priceCache, lookup>>

\* touchPosition runs and the response is sent
TouchRun ==
    /\ task.pc = "touch"
    /\ positions' = touchPosition(positions, task.body.stockCode, clock)
    /\ task' = [task EXCEPT !.pc = "done", !.now = clock, !.status = 200]
    /\ UNCHANGED <<earlier, price_cache, portfolio_cache, snapshotRead, cron, reader, clock, priceCache, lookup>>

\* background, updatePortfolioCache: getAllPositionsWithPrices() returns, items
\* and summary are computed
BackgroundRecompute ==
    /\ task.pc = "bgRecompute"
    /\ task' = [task EXCEPT
                   !.data = PortfolioData(getAllPositionsWithPrices(positions, price_cache)),
                   !.read = [done |-> TRUE, positions |-> positions, price_cache |-> price_cache],
                   !.pc = "bgSaveSelect"]
    /\ UNCHANGED <<earlier, positions, price_cache, portfolio_cache, snapshotRead, cron, reader, clock, priceCache, lookup>>

\* background, savePortfolioCache: SELECT id FROM portfolio_cache WHERE id = 'main'
BackgroundSaveSelect ==
    /\ task.pc = "bgSaveSelect"
    /\ task' = [task EXCEPT !.existing = (portfolio_cache # <<>>), !.now = clock,
                            !.pc = "bgSaveWrite"]
    /\ UNCHANGED <<earlier, positions, price_cache, portfolio_cache, snapshotRead, cron, reader, clock, priceCache, lookup>>

\* background, savePortfolioCache: the UPDATE or INSERT
BackgroundSaveWrite ==
    /\ task.pc = "bgSaveWrite"
    /\ IF SnapshotWriteRejected(portfolio_cache, task.existing)
       THEN /\ task' = TaskBackgroundFailed(task)
            /\ UNCHANGED <<portfolio_cache, snapshotRead>>
       ELSE /\ portfolio_cache' =
                   SnapshotWrite(portfolio_cache, JsonStringify(task.data), task.existing, task.now)
            /\ snapshotRead' = task.read
            /\ task' = [task EXCEPT !.pc = "done"]
    /\ UNCHANGED <<earlier, positions, price_cache, cron, reader, clock, priceCache, lookup>>

\* the storage call awaited fails (D1 unreachable): the handler answers 500,
\* the background task logs the error and ends
TaskStorageError ==
    /\ task.pc \in {"upsertSelect", "upsertWrite", "upsertReturn", "delete",
                    "bgPriceSelect", "bgPriceWrite", "bgRecompute", "bgSaveSelect", "bgSaveWrite"}
    /\ task' = IF task.pc \in {"upsertSelect", "upsertWrite", "upsertReturn", "delete"}
               THEN [TaskFailed(task) EXCEPT !.storageError = TRUE]
               ELSE [TaskBackgroundFailed(task) EXCEPT !.storageError = TRUE]
    /\ UNCHANGED <<earlier, positions, price_cache, portfolio_cache, snapshotRead, cron, reader, clock, priceCache, lookup>>

(***************************************************************************)
(* GET /api/portfolio: the snapshot read                                   *)
(***************************************************************************)
\* variant of getPortfolioCache: only the first item of the stored data
getPortfolioCache_firstItem(table) ==
    IF table = <<>> THEN <<>>
    ELSE <<[data |-> [table[1].data EXCEPT !.items = SubSeq(@, 1, 1)],
            updatedAt |-> table[1].updatedAt]>>

\* SELECT data, updatedAt FROM portfolio_cache WHERE id = 'main'  .first(),
\* as a sequence of 0 or 1 results; data is JSON.parse of the stored text
getPortfolioCache(table) ==
    IF table = <<>> THEN <<>>
    ELSE <<[data |-> table[1].data, updatedAt |-> table[1].updatedAt]>>

\* the data returned when the table has no row
ColdStartData ==
    [items |-> <<>>,
     summary |-> [totalCost |-> Num(0), totalMarketValue |-> Num(0),
                  totalProfit |-> Num(0), totalProfitPercent |-> Num(0)],
     hasPrices |-> FALSE]

ReaderIdle ==
    [pc |-> "idle", status |-> 0, success |-> FALSE, data |-> ColdStartData, cachedAt |-> <<>>,
     storageError |-> FALSE]

SnapshotResponse_errorOnCold(cache) ==
    IF cache # <<>>
    THEN [pc |-> "done", status |-> 200, success |-> TRUE,
          data |-> cache[1].data, cachedAt |-> <<cache[1].updatedAt>>,
          storageError |-> FALSE]
    ELSE [pc |-> "done", status |-> 500, success |-> FALSE,
          data |-> ColdStartData, cachedAt |-> <<>>, storageError |-> FALSE]

\* the response of the handler for what getPortfolioCache() returned
SnapshotResponse(cache) ==
    IF cache # <<>>
    THEN [pc |-> "done", status |-> 200, success |-> TRUE,
          data |-> cache[1].data, cachedAt |-> <<cache[1].updatedAt>>,
          storageError |-> FALSE]
    ELSE [pc |-> "done", status |-> 200, success |-> TRUE,
          data |-> ColdStartData, cachedAt |-> <<>>, storageError |-> FALSE]

\* the request arrives
ReadRequest ==
    /\ reader.pc = "idle"
    /\ reader' = [reader EXCEPT !.pc = "select"]
    /\ UNCHANGED <<earlier, positions, price_cache, portfolio_cache, snapshotRead, cron, task, clock,
                   priceCache, lookup>>

\* getPortfolioCache() returns and the response is sent
ReadSelect ==
    /\ reader.pc = "select"
    /\ reader' = SnapshotResponse(getPortfolioCache(portfolio_cache))
    /\ UNCHANGED <<earlier, positions, price_cache, portfolio_cache, snapshotRead, cron, task, clock,
                   priceCache, lookup>>

\* getPortfolioCache() throws (D1 unreachable): the catch answers 500
ReadStorageError ==
    /\ reader.pc = "select"
    /\ reader' = [reader EXCEPT !.pc = "done", !.status = 500, !.success = FALSE,
                                !.storageError = TRUE]
    /\ UNCHANGED <<earlier, positions, price_cache, portfolio_cache, snapshotRead, cron, task, clock,
                   priceCache, lookup>>

(***************************************************************************)
(* Specification Spec: one refresh request, handled to its response, from  *)
(* any of a family of quiescent store states                               *)
(***************************************************************************)
\* ids are opaque tokens (generateId); one per code suffices
IdOf(code) ==
    CASE code = FUND_A -> "id-1"
      [] code = STOCK_A -> "id-2"
      [] code = STOCK_B -> "id-3"

PositionRow(code, costPrice, shares) ==
    [id |-> IdOf(code), stockCode |-> code, stockName |-> OLD_NAME,
     costPrice |-> costPrice, shares |-> shares,
     createdAt |-> 0, updatedAt |-> 0]

\* the subsequences of s
RECURSIVE SubSeqs(_)
SubSeqs(s) ==
    IF s = <<>> THEN {<<>>}
    ELSE LET rest == SubSeqs(Tail(s))
         IN  rest \cup {<<Head(s)>> \o t : t \in rest}

\* the snapshot a recompute saves when no position is stored
EmptySnapshot ==
    <<[id |-> "main", data |-> JsonStringify(PortfolioData(<<>>)), updatedAt |-> 0]>>

\* the two clock reads of one request: the second is taken right after the
\* first, in the same minute or as the minute turns
ClockReads(Walls) == UNION {{<<w, w>>, <<w, NextMinute(w)>>} : w \in Walls}

\* clock reads offered to the refresh under Spec: Tuesday 10:00 (morning
\* session), Wednesday 19:59 turning 20:00 (the fund window opens between
\* the two reads), Friday 21:00 (fund window), Saturday 10:00 (weekend)
SampleReads ==
    { <<[day |-> 2, minute |-> 600], [day |-> 2, minute |-> 600]>>,
      <<[day |-> 3, minute |-> 1199], [day |-> 3, minute |-> 1200]>>,
      <<[day |-> 5, minute |-> 1260], [day |-> 5, minute |-> 1260]>>,
      <<[day |-> 6, minute |-> 600], [day |-> 6, minute |-> 600]>> }

\* price_cache rows before the request: none, one, two, all
InitCached == {{}, {STOCK_A}, {FUND_A, STOCK_B}, Codes}

Init ==
    /\ positions \in {[i \in 1..Len(cs) |-> PositionRow(cs[i], 1, 1)] :
                         cs \in SubSeqs(<<FUND_A, STOCK_A, STOCK_B>>)}
    /\ price_cache \in {[c \in S |-> [price |-> MaxPrice, updatedAt |-> 0]] : S \in InitCached}
    /\ portfolio_cache \in {<<>>, EmptySnapshot}
    /\ snapshotRead = NoRead
    /\ cron = CronIdle
    /\ task = TaskIdle
    /\ reader = ReaderIdle
    /\ clock = 0
    /\ priceCache = <<>>
    /\ lookup = NoLookup
    /\ earlier = TaskIdle

\* the steps of a refresh after its request has arrived
CronRun(Reads, Outcomes(_)) ==
    \/ /\ cron.pc = "getCodes"
       /\ \E reads \in Reads : CronGetCodes(reads[1], reads[2])
    \/ /\ cron.pc = "fetching"
       /\ \E code \in cron.pending : \E outcome \in Outcomes(code) : CronFetchSettle(code, outcome)
    \/ CronResult
    \/ CronBatchSelect
    \/ CronBatchWrite
    \/ CronRecompute
    \/ CronSaveSelect
    \/ CronSaveWrite
    \/ CronStorageError

CronStep(Reads, Outcomes(_)) ==
    \/ /\ cron.pc = "idle"
       /\ \E secretSet \in BOOLEAN, header \in AuthHeaders, force \in BOOLEAN, type \in TypeFilters :
              CronRequest(secretSet, header, force, type)
    \/ CronRun(Reads, Outcomes)

Next == CronStep(SampleReads, AdapterOutcomes)

Spec == Init /\ [][Next]_vars

(***************************************************************************)
(* Specification SpecPolicy: one refresh request at every minute of the    *)
(* week.  Two positions are tracked (a fund and an equity) and each fetch  *)
(* either fails or returns one fixed quote.                                *)
(***************************************************************************)
\* every minute of the week read twice within the minute, and every turn
\* of the hour falling between the two reads
PolicyReads ==
    {<<w, w>> : w \in WallReadings}
        \cup {<<w, NextMinute(w)>> : w \in {v \in WallReadings : v.minute % 60 = 59}}

PolicyOutcomes(code) ==
    { [kind |-> "none", price |-> Null, name |-> NullName],
      [kind |-> "quote", price |-> Num(MaxPrice), name |-> Str(NEW_NAME)] }

InitPolicy ==
    /\ positions = <<PositionRow(FUND_A, 1, 1), PositionRow(STOCK_A, 1, 1)>>
    /\ price_cache = <<>>
    /\ portfolio_cache = <<>>
    /\ snapshotRead = NoRead
    /\ cron = CronIdle
    /\ task = TaskIdle
    /\ reader = ReaderIdle
    /\ clock = 0
    /\ priceCache = <<>>
    /\ lookup = NoLookup
    /\ earlier = TaskIdle

NextPolicy == CronStep(PolicyReads, PolicyOutcomes)

SpecPolicy == InitPolicy /\ [][NextPolicy]_vars

(***************************************************************************)
(* Properties of the refresh cycle                                         *)
(***************************************************************************)
\* the codes whose fetch the request has started
Launched == cron.pending \cup DOMAIN cron.adapter

\* the request has read the tracked codes, found some, and run the policy loop
Filtered == cron.pc \notin {"idle", "getCodes"} /\ cron.allCodes # <<>>

\* the request has ended after all its fetches had settled
CycleEnded ==
    /\ cron.pc = "done"
    /\ Len(cron.codesToUpdate) > 0
    /\ cron.pending = {}
    /\ DOMAIN cron.adapter = Range(cron.codesToUpdate)

\* the adapter call for the code gave a price / gave none (it threw,
\* returned no quote, or a quote without a price)
FetchSucceeded(code) ==
    cron.adapter[code].kind = "quote" /\ IsFinite(cron.adapter[code].price)

FetchFailed(code) ==
    cron.adapter[code].kind \in {"throws", "none"} \/ cron.adapter[code].price = Null

SameEntry(cacheA, cacheB, code) ==
    /\ HasPrice(cacheA, code) <=> HasPrice(cacheB, code)
    /\ HasPrice(cacheA, code) => cacheA[code] = cacheB[code]

\* C1: partial failure.  In a cycle whose fetches each either fail (exception,
\* no quote, no price) or give a price, and which meets no storage failure,
\* the response is a success, every code whose fetch succeeded has the fetched
\* price in price_cache, and every code whose fetch failed has the entry it
\* had when the request arrived (the same price, or none).
C1_PartialFailure ==
    ( /\ CycleEnded
      /\ ~cron.storageError
      /\ \A code \in Range(cron.codesToUpdate) : FetchSucceeded(code) \/ FetchFailed(code) )
    => /\ cron.response.success
       /\ cron.response.status = 200
       /\ \A code \in Range(cron.codesToUpdate) :
             IF FetchSucceeded(code)
             THEN /\ HasPrice(price_cache, code)
                  /\ price_cache[code].price = cron.adapter[code].price.num
             ELSE SameEntry(price_cache, cron.before, code)

\* three eligible codes, one fails and keeps its old entry, two succeed:
\* one replaces an old entry by a different price, one creates its entry
C1_Witness ==
    /\ CycleEnded
    /\ cron.response.success
    /\ Len(cron.codesToUpdate) = 3
    /\ \E f, u, n \in Range(cron.codesToUpdate) :
          /\ FetchFailed(f) /\ HasPrice(cron.before, f) /\ HasPrice(price_cache, f)
          /\ FetchSucceeded(u) /\ HasPrice(cron.before, u)
          /\ cron.before[u] # price_cache[u]
          /\ FetchSucceeded(n) /\ ~HasPrice(cron.before, n) /\ HasPrice(price_cache, n)
          /\ f # u /\ u # n /\ f # n

\* the eligible codes whose fetched price is the price now in price_cache
Written ==
    {code \in Range(cron.codesToUpdate) :
        /\ FetchSucceeded(code)
        /\ HasPrice(price_cache, code)
        /\ price_cache[code].price = cron.adapter[code].price.num}

\* C2: refresh counts.  When a cycle with at least one eligible code completes,
\* updated is the number of eligible codes whose fetched price was written to
\* price_cache, failed is the number of eligible codes minus updated, the two
\* add up to the number of eligible codes and neither is negative.
C2_RefreshCounts ==
    (CycleEnded /\ cron.response.success)
    => /\ cron.response.updated = <<Cardinality(Written)>>
       /\ cron.response.failed = <<Len(cron.codesToUpdate) - Cardinality(Written)>>
       /\ cron.response.updated[1] + cron.response.failed[1] = Len(cron.codesToUpdate)
       /\ cron.response.updated[1] >= 0
       /\ cron.response.failed[1] >= 0

\* one success and two failures among three eligible codes
C2_Witness ==
    /\ CycleEnded
    /\ cron.response.success
    /\ Len(cron.codesToUpdate) = 3
    /\ cron.response.updated = <<1>>
    /\ cron.response.failed = <<2>>

\* the trading window as the claim words it, on the Shanghai wall clock
InStockWindow(wall) ==
    /\ wall.day \in 1..5
    /\ \/ wall.minute \in (9 * 60 + 30)..(11 * 60 + 30)
       \/ wall.minute \in (13 * 60)..(15 * 60)

InFundWindow(wall) == wall.minute \div 60 \in {20, 21, 22, 23}

\* C3: equity refresh window.  Without force, a tracked equity code that the
\* type filter keeps is fetched if and only if the Shanghai clock reads
\* Monday to Friday and 09:30..11:30 or 13:00..15:00, endpoints included.
C3_EquityWindow ==
    (Filtered /\ ~cron.forceUpdate)
    => \A code \in Range(cron.allCodes) :
          (~isFundCode(code) /\ cron.typeFilter # "fund")
          => (code \in Launched <=> InStockWindow(cron.wallStock))

\* an equity code is fetched at Friday 15:00, the last minute of the week's
\* last session
C3_Witness ==
    /\ Filtered /\ ~cron.forceUpdate
    /\ cron.wallStock = [day |-> 5, minute |-> 900]
    /\ STOCK_A \in Launched

MatchesFilter(code, typeFilter) ==
    \/ typeFilter = "null"
    \/ typeFilter = "fund" /\ isFundCode(code)
    \/ typeFilter = "stock" /\ ~isFundCode(code)

\* C5: forced refresh and type filter.  With force the codes fetched are
\* exactly the tracked codes that match the type filter, at every clock
\* reading; forced or not, no fetched code fails to match the type filter.
C5_ForceAndFilter ==
    Filtered
    => /\ \A code \in Launched : MatchesFilter(code, cron.typeFilter)
       /\ cron.forceUpdate
          => Launched = {code \in Range(cron.allCodes) : MatchesFilter(code, cron.typeFilter)}

\* a forced refresh of type stock on a Saturday night fetches the equity and
\* not the fund
C5_Witness ==
    /\ Filtered /\ cron.forceUpdate
    /\ cron.typeFilter = "stock"
    /\ cron.wallStock = [day |-> 6, minute |-> 1380]
    /\ Launched = {STOCK_A}

\* what a recompute over the present stores would save
FreshSnapshot ==
    <<[id |-> "main",
       data |-> JsonStringify(PortfolioData(getAllPositionsWithPrices(positions, price_cache))),
       updatedAt |-> cron.now]>>

\* C10: a cycle with at least one eligible code that ends without a failed
\* storage statement has replaced the snapshot by the aggregate of the
\* positions and the cached prices, also when every fetch failed.
C10_SnapshotReplaced ==
    (CycleEnded /\ cron.response.status # 500)
    => /\ portfolio_cache = FreshSnapshot
       /\ cron.read.done
       /\ snapshotRead = cron.read

\* every fetch of a three-code cycle failed, and the snapshot now holds the
\* three positions with the prices cached before the cycle
C10_Witness ==
    /\ CycleEnded
    /\ cron.response.updated = <<0>>
    /\ cron.response.failed = <<3>>
    /\ portfolio_cache # <<>>
    /\ Len(portfolio_cache[1].data.items) = 3
    /\ portfolio_cache[1].data.hasPrices
    /\ price_cache = cron.before

\* the request found tracked codes and none of them eligible
NothingToDo ==
    /\ cron.pc = "done"
    /\ cron.allCodes # <<>>
    /\ cron.codesToUpdate = <<>>
    /\ cron.response.status = 200

\* the request had eligible codes, every fetch failed, and it completed
AllFetchesFailed ==
    /\ CycleEnded
    /\ cron.response.status = 200
    /\ \A code \in Range(cron.codesToUpdate) : FetchFailed(code)

\* what a caller can test on a result: the cycle result carries the field
\* failed and the message of a cycle, the nothing-to-do result neither
IsCycleResult(r) == r.failed # <<>> /\ r.kind = "updated"
IsNothingToDoResult(r) == r.failed = <<>> /\ r.kind = "nothing due"

\* C11: the result of a request with tracked codes and none eligible is never
\* a value that a cycle with eligible codes whose fetches all failed returns
\* (updated 0, failed >= 1), and the reverse.
C11_NothingToDoDistinct ==
    /\ NothingToDo =>
          /\ IsNothingToDoResult(cron.response)
          /\ ~IsCycleResult(cron.response)
          /\ cron.response.updated = <<0>>
    /\ AllFetchesFailed =>
          /\ IsCycleResult(cron.response)
          /\ ~IsNothingToDoResult(cron.response)
          /\ cron.response.updated = <<0>>
          /\ cron.response.failed[1] >= 1

\* three tracked codes on a Saturday morning without force: nothing is due
C11_Witness ==
    /\ NothingToDo
    /\ Len(cron.allCodes) = 3
    /\ ~cron.forceUpdate
    /\ cron.response.success
    /\ cron.response.failed = <<>>
    /\ price_cache = cron.before

\* the class of a code as the claim words it: exactly six decimal digits
ClassOf(code) ==
    IF Len(code) = 6 /\ code \in [1..6 -> Digits] THEN "fund" ELSE "stock"

ClassAdapter(class) == IF class = "fund" THEN "fetchFundData" ELSE "fetchStockQuote"

\* the items of the stored snapshot
StoredItems == IF portfolio_cache = <<>> THEN <<>> ELSE portfolio_cache[1].data.items

\* C18: a code is classified fund if and only if it is exactly six decimal
\* digits ('600519' fund, 'sh600519' equity); that class decides the adapter
\* that fetches the code, the type filter and time window under which a
\* refresh selects it, and the assetType of its snapshot item, so no code is
\* fetched by one adapter while its snapshot item carries the other class.
C18_Classification ==
    /\ isFundCode(<<"6", "0", "0", "5", "1", "9">>)
    /\ ~isFundCode(<<"s", "h", "6", "0", "0", "5", "1", "9">>)
    /\ \A c \in Codes : isFundCode(c) <=> ClassOf(c) = "fund"
    /\ \A c \in DOMAIN cron.via : cron.via[c] = ClassAdapter(ClassOf(c))
    /\ \A c \in Range(cron.codesToUpdate) :
          /\ cron.typeFilter # "null" => cron.typeFilter = ClassOf(c)
          /\ ~cron.forceUpdate =>
                IF ClassOf(c) = "fund" THEN cron.shouldUpdateFund ELSE cron.isTrading
    /\ \A i \in 1..Len(StoredItems) :
          /\ StoredItems[i].assetType = ClassOf(StoredItems[i].code)
          /\ StoredItems[i].code \in DOMAIN cron.via =>
                cron.via[StoredItems[i].code] = ClassAdapter(StoredItems[i].assetType)

\* a refresh fetched the five-digit code 00700 and the six-digit code 600519
\* and saved a snapshot with an item for each
C18_Witness ==
    /\ cron.pc = "done"
    /\ snapshotRead.done
    /\ {FUND_A, STOCK_B} \subseteq DOMAIN cron.via
    /\ cron.via[FUND_A] = "fetchFundData"
    /\ cron.via[STOCK_B] = "fetchStockQuote"
    /\ \E i, j \in 1..Len(StoredItems) :
          /\ StoredItems[i].code = FUND_A /\ StoredItems[i].assetType = "fund"
          /\ StoredItems[j].code = STOCK_B /\ StoredItems[j].assetType = "stock"

(***************************************************************************)
(* Specification SpecPosition: one position request (save or delete),      *)
(* handled to the end of its background task, from a family of quiescent   *)
(* store states with at most one position                                  *)
(***************************************************************************)
\* request bodies: a missing code, a missing name, a missing cost, and
\* numbers of either sign
PostBodies ==
    [stockCode : Codes \cup {<<>>},
     stockName : {"", NEW_NAME},
     costPrice : {Null} \cup {Num(n) : n \in -1..MaxCost},
     shares : {Num(n) : n \in 0..MaxShares}]

\* what the adapter call of the background task can end in
BackgroundOutcomes(code) ==
    {o \in AdapterOutcomes(code) : o.kind # "quote" \/ o.name = Str(NEW_NAME)}

InitPosition ==
    /\ positions \in {<<>>} \cup
           {<<PositionRow(code, costPrice, shares)>> :
               code \in {FUND_A, STOCK_A}, costPrice \in 1..MaxCost, shares \in 1..MaxShares}
    /\ price_cache \in {[c \in S |-> [price |-> p, updatedAt |-> 0]] :
                            S \in InitCached, p \in 0..MaxPrice}
    /\ portfolio_cache \in {<<>>, EmptySnapshot}
    /\ snapshotRead = NoRead
    /\ cron = CronIdle
    /\ task = TaskIdle
    /\ reader = ReaderIdle
    /\ clock = 0
    /\ priceCache = <<>>
    /\ lookup = NoLookup
    /\ earlier = TaskIdle

NextPosition ==
    \/ /\ task.pc = "idle"
       /\ \E body \in PostBodies : PostRequest(body)
    \/ PostUpsertSelect
    \/ PostUpsertWrite
    \/ PostUpsertReturn
    \/ /\ task.pc = "bgFetch"
       /\ \E outcome \in BackgroundOutcomes(task.body.stockCode) : BackgroundFetchSettle(outcome)
    \/ BackgroundPriceSelect
    \/ BackgroundPriceWrite
    \/ /\ task.pc = "idle"
       /\ \E code \in Codes \cup {<<>>} : DeleteRequest(code)
    \/ DeleteRun
    \/ BackgroundRecompute
    \/ BackgroundSaveSelect
    \/ BackgroundSaveWrite
    \/ TaskStorageError

SpecPosition == InitPosition /\ [][NextPosition]_vars

(***************************************************************************)
(* Claims on the snapshot written by a recompute (SpecPosition)            *)
(***************************************************************************)
\* a recompute has written the snapshot; snapshotRead is what it had read
SnapshotWritten == snapshotRead.done /\ portfolio_cache # <<>>

SnapshotItems == portfolio_cache[1].data.items
SnapshotSummary == portfolio_cache[1].data.summary

\* the items of the snapshot made from a row of the positions read
ItemsOf(row) == {i \in 1..Len(SnapshotItems) : SnapshotItems[i].id = row.id}

\* C6: in a snapshot written by a recompute, an item's currentPrice is null
\* exactly when the price cache read by the recompute had no row for its code;
\* an item with a null currentPrice has null marketValue, profit and
\* profitPercent, and its totalCost is costPrice*shares of its position.
C6_NullPropagation ==
    SnapshotWritten =>
        /\ Len(SnapshotItems) = Len(snapshotRead.positions)
        /\ \A k \in 1..Len(snapshotRead.positions) :
              LET row == snapshotRead.positions[k]
              IN  /\ ItemsOf(row) # {}
                  /\ \A i \in ItemsOf(row) :
                        LET item == SnapshotItems[i]
                        IN  /\ item.code = row.stockCode
                            /\ (item.currentPrice = Null)
                                  <=> (row.stockCode \notin DOMAIN snapshotRead.price_cache)
                            /\ (item.currentPrice = Null) =>
                                  /\ item.marketValue = Null
                                  /\ item.profit = Null
                                  /\ item.profitPercent = Null
                                  /\ item.totalCost.type = "number"
                                  /\ item.totalCost.den = 1
                                  /\ item.totalCost.num = row.costPrice * row.shares

\* a save has ended with a snapshot of two items: one without a cached price,
\* with a cost of 4 and null figures, and one with a price
C6_Witness ==
    /\ SnapshotWritten
    /\ task.op = "POST"
    /\ task.pc = "done"
    /\ Len(SnapshotItems) = 2
    /\ \E i, j \in 1..2 :
          /\ SnapshotItems[i].currentPrice = Null
          /\ SnapshotItems[i].marketValue = Null
          /\ SnapshotItems[i].totalCost = Num(4)
          /\ SnapshotItems[i].code \notin DOMAIN price_cache
          /\ SnapshotItems[j].currentPrice # Null
          /\ SnapshotItems[j].code \in DOMAIN price_cache

\* C7: for every position with shares > 0 and costPrice > 0 the item has
\* totalCost = costPrice*shares, and with a cached price p for its code
\* currentPrice = p, marketValue = p*shares, profit = p*shares - totalCost and
\* profitPercent = profit/totalCost*100.
C7_ItemFigures ==
    SnapshotWritten =>
        \A k \in 1..Len(snapshotRead.positions) :
            LET row == snapshotRead.positions[k]
                cost == row.costPrice * row.shares
            IN  (row.shares > 0 /\ row.costPrice > 0) =>
                  /\ ItemsOf(row) # {}
                  /\ \A i \in ItemsOf(row) :
                        LET item == SnapshotItems[i]
                        IN  /\ item.totalCost = Num(cost)
                            /\ (row.stockCode \in DOMAIN snapshotRead.price_cache) =>
                                  LET p == snapshotRead.price_cache[row.stockCode].price
                                  IN  /\ item.currentPrice = Num(p)
                                      /\ item.marketValue = Num(p * row.shares)
                                      /\ item.profit = Num(p * row.shares - cost)
                                      /\ item.profitPercent.type = "number"
                                      /\ item.profitPercent.den > 0
                                      /\ item.profitPercent.num * cost
                                            = (p * row.shares - cost) * 100 * item.profitPercent.den

\* cost 1, shares 2, price 2 gives 2, 4, 2 and 100
C7_Witness ==
    /\ SnapshotWritten
    /\ task.pc = "done"
    /\ \E i \in 1..Len(SnapshotItems) :
          /\ SnapshotItems[i].costPrice = 1
          /\ SnapshotItems[i].shares = 2
          /\ SnapshotItems[i].currentPrice = Num(2)
          /\ SnapshotItems[i].totalCost = Num(2)
          /\ SnapshotItems[i].marketValue = Num(4)
          /\ SnapshotItems[i].profit = Num(2)
          /\ SnapshotItems[i].profitPercent = Num(100)

\* the sum of a field over the items with index in S, null counted as 0
RECURSIVE SumOver(_, _, _)
SumOver(items, field, S) ==
    IF S = {} THEN 0
    ELSE LET i == CHOOSE x \in S : TRUE
         IN  (IF items[i][field] = Null THEN 0 ELSE items[i][field].num)
                + SumOver(items, field, S \ {i})

\* C8: in a snapshot written by a recompute, summary.totalCost is the sum of
\* totalCost over all items, summary.totalMarketValue the sum of the non-null
\* marketValue and summary.totalProfit the sum of the non-null profit.
C8_SummarySums ==
    SnapshotWritten =>
        LET all == 1..Len(SnapshotItems)
        IN  /\ \A i \in all : SnapshotItems[i].totalCost.type = "number"
                              /\ SnapshotItems[i].totalCost.den = 1
            /\ \A i \in all : SnapshotItems[i].marketValue # Null =>
                                 /\ SnapshotItems[i].marketValue.den = 1
                                 /\ SnapshotItems[i].profit # Null
                                 /\ SnapshotItems[i].profit.den = 1
            /\ SnapshotSummary.totalCost = Num(SumOver(SnapshotItems, "totalCost", all))
            /\ SnapshotSummary.totalMarketValue =
                  Num(SumOver(SnapshotItems, "marketValue",
                              {i \in all : SnapshotItems[i].marketValue # Null}))
            /\ SnapshotSummary.totalProfit =
                  Num(SumOver(SnapshotItems, "profit",
                              {i \in all : SnapshotItems[i].profit # Null}))

\* two items, one without a price: its cost of 2 is in totalCost, the market
\* value and the profit are those of the other item alone
C8_Witness ==
    /\ SnapshotWritten
    /\ task.pc = "done"
    /\ Len(SnapshotItems) = 2
    /\ \E i, j \in 1..2 :
          /\ SnapshotItems[i].marketValue = Null
          /\ SnapshotItems[i].totalCost = Num(2)
          /\ SnapshotItems[j].totalCost = Num(1)
          /\ SnapshotItems[j].marketValue = Num(2)
          /\ SnapshotItems[j].profit = Num(1)
    /\ SnapshotSummary.totalCost = Num(3)
    /\ SnapshotSummary.totalMarketValue = Num(2)
    /\ SnapshotSummary.totalProfit = Num(1)

\* C9: in a snapshot written by a recompute, summary.totalProfitPercent is 0
\* when summary.totalCost = 0 and totalProfit/totalCost*100 otherwise, for
\* every set of positions the store can hold.
C9_SummaryPercentage ==
    SnapshotWritten =>
        IF SnapshotSummary.totalCost = Num(0)
        THEN SnapshotSummary.totalProfitPercent = Num(0)
        ELSE SnapshotSummary.totalProfitPercent =
                JsMul(JsDiv(SnapshotSummary.totalProfit, SnapshotSummary.totalCost), Num(100))

(***************************************************************************)
(* Claims on the position endpoint (SpecPosition)                          *)
(***************************************************************************)
\* a save request arrives with this body
SaveArrives == task.pc = "idle" /\ task'.op = "POST"

\* the body lacks the code or the name, or its cost or share count is
\* missing or not positive
InvalidBody(b) ==
    \/ b.stockCode = <<>>
    \/ b.stockName = ""
    \/ ~JsGtZero(b.costPrice)
    \/ ~JsGtZero(b.shares)

\* C13: a save request with a missing code or name, or with costPrice <= 0 or
\* shares <= 0 (or either missing), is answered 400 at once: no table has
\* changed and no background task is started.
C13_InputValidation ==
    [][ (SaveArrives /\ InvalidBody(task'.body)) =>
          /\ task'.pc = "done"
          /\ task'.status = 400
          /\ UNCHANGED <<positions, price_cache, portfolio_cache>> ]_vars

(***************************************************************************)
(* Specification SpecRead: one snapshot read, interleaved at any point     *)
(* with one refresh request.  Two positions are tracked; the snapshot      *)
(* table is empty or holds the snapshot an earlier recompute saved.        *)
(***************************************************************************)
\* the stores an earlier recompute read, and the row it saved
ReadOf(pos, cache) == [done |-> TRUE, positions |-> pos, price_cache |-> cache]

SavedSnapshot(pos, cache) ==
    <<[id |-> "main",
       data |-> JsonStringify(PortfolioData(getAllPositionsWithPrices(pos, cache))),
       updatedAt |-> 0]>>

InitRead ==
    /\ positions = <<PositionRow(FUND_A, 1, 2), PositionRow(STOCK_A, 2, 1)>>
    /\ price_cache \in {[c \in S |-> [price |-> p, updatedAt |-> 0]] :
                            S \in {{}, {STOCK_A}}, p \in 0..MaxPrice}
    /\ \/ /\ portfolio_cache = <<>>
          /\ snapshotRead = NoRead
       \/ /\ portfolio_cache = SavedSnapshot(positions, price_cache)
          /\ snapshotRead = ReadOf(positions, price_cache)
    /\ cron = CronIdle
    /\ task = TaskIdle
    /\ reader = ReaderIdle
    /\ clock = 0
    /\ priceCache = <<>>
    /\ lookup = NoLookup
    /\ earlier = TaskIdle

NextRead ==
    \/ CronStep(SampleReads, PolicyOutcomes)
    \/ ReadRequest
    \/ ReadSelect
    \/ ReadStorageError

SpecRead == InitRead /\ [][NextRead]_vars

\* the step in which getPortfolioCache() returns to the handler
ReadReturns == reader.pc = "select" /\ reader'.pc = "done" /\ ~reader'.storageError

\* C12: a read that finds the snapshot table never written answers with
\* success, items = [], the four summary fields 0 and hasPrices = false; a
\* read that finds a saved snapshot answers with that snapshot.
C12_ColdStart ==
    [][ ReadReturns =>
          /\ reader'.success
          /\ reader'.status = 200
          /\ IF portfolio_cache = <<>>
             THEN /\ reader'.data.items = <<>>
                  /\ \A f \in {"totalCost", "totalMarketValue", "totalProfit",
                               "totalProfitPercent"} : reader'.data.summary[f] = Num(0)
                  /\ reader'.data.hasPrices = FALSE
                  /\ DOMAIN reader'.data.summary =
                        {"totalCost", "totalMarketValue", "totalProfit", "totalProfitPercent"}
             ELSE reader'.data = portfolio_cache[1].data ]_vars

\* a read has answered from the empty table, with two positions stored
C12_Witness ==
    /\ reader.pc = "done"
    /\ reader.success
    /\ portfolio_cache = <<>>
    /\ Len(positions) = 2
    /\ reader.data.items = <<>>
    /\ reader.cachedAt = <<>>

\* the stored positions under any of the names a refresh can have written
NamedPositions ==
    {[i \in 1..Len(positions) |-> [positions[i] EXCEPT !.stockName = names[i]]] :
        names \in [1..Len(positions) -> {OLD_NAME, NEW_NAME}]}

\* the price tables a refresh can leave behind
PriceTables ==
    UNION {[S -> [price : 0..MaxPrice, updatedAt : {0}]] : S \in SUBSET {FUND_A, STOCK_A}}

\* what a recompute saves: an item for every position, with its summary
FullSnapshots ==
    {JsonStringify(PortfolioData(getAllPositionsWithPrices(pos, t))) :
        pos \in NamedPositions, t \in PriceTables}

\* a step of the snapshot reader
ReaderStep == reader' # reader

ReadIsPure ==
    ReaderStep => UNCHANGED <<positions, price_cache, portfolio_cache, snapshotRead,
                              cron, task, priceCache>>

ReadIsWhole ==
    (reader.pc = "done" /\ ~reader.storageError) =>
        reader.data = ColdStartData \/ reader.data \in FullSnapshots

\* C19: a snapshot read starts no adapter call and leaves positions, the
\* price cache and the snapshot table as they were, whatever the refresh is
\* doing meanwhile; what it returns is the cold-start empty snapshot or a
\* complete snapshot saved by a recompute.
C19_ReadIsPure == [][ReadIsPure]_vars /\ []ReadIsWhole

\* a read answered while a refresh was between its price writes and its
\* recompute, and returned the two-item snapshot saved earlier
C19_Witness ==
    /\ reader.pc = "done"
    /\ ~reader.storageError
    /\ cron.pc = "recompute"
    /\ cron.adapter # <<>>
    /\ Len(reader.data.items) = 2
    /\ reader.data = portfolio_cache[1].data

(***************************************************************************)
(* Specification SpecStore: a sequence of requests on two codes, one per   *)
(* tick of the clock: save (either build of upsertPosition), delete,       *)
(* touch, and a refresh that renames.  Fetches of the background task      *)
(* fail; no storage statement fails.                                       *)
(***************************************************************************)
MaxTime == 2      \* the clock runs from 0 to MaxTime

\* the requests of the tick have ended; the next request arrives one tick later
Tick ==
    /\ clock < MaxTime
    /\ task.pc \in {"idle", "done"}
    /\ cron.pc \in {"idle", "done"}
    /\ reader.pc \in {"idle", "done"}
    /\ clock' = clock + 1
    /\ task' = TaskIdle
    /\ cron' = CronIdle
    /\ reader' = ReaderIdle
    /\ UNCHANGED <<earlier, positions, price_cache, portfolio_cache, snapshotRead, priceCache, lookup>>

StoreCodes == {FUND_A, STOCK_A}

StoreBodies ==
    {[stockCode |-> code, stockName |-> NEW_NAME, costPrice |-> Num(v), shares |-> Num(v)] :
        code \in StoreCodes, v \in {1, MaxCost}}

StoreOutcomes(code) == {[kind |-> "none", price |-> Null, name |-> NullName]}

\* Tuesday 10:00, read twice
StoreReads == {<<[day |-> 2, minute |-> 600], [day |-> 2, minute |-> 600]>>}

InitStore ==
    /\ positions \in {<<>>,
                      <<PositionRow(STOCK_A, 1, 1)>>,
                      <<PositionRow(FUND_A, 1, 1), PositionRow(STOCK_A, 1, 1)>>}
    /\ price_cache = <<>>
    /\ portfolio_cache = <<>>
    /\ snapshotRead = NoRead
    /\ cron = CronIdle
    /\ task = TaskIdle
    /\ reader = ReaderIdle
    /\ clock = 0
    /\ priceCache = <<>>
    /\ lookup = NoLookup
    /\ earlier = TaskIdle

NextStore ==
    \/ Tick
    \/ /\ task.pc = "idle"
       /\ \E body \in StoreBodies : PostRequest(body)
    \/ PostUpsertSelect
    \/ PostUpsertWrite
    \/ PostUpsertOnConflict
    \/ PostUpsertReturn
    \/ /\ task.pc = "bgFetch"
       /\ \E outcome \in StoreOutcomes(task.body.stockCode) : BackgroundFetchSettle(outcome)
    \/ /\ task.pc = "idle"
       /\ \E code \in StoreCodes : DeleteRequest(code)
    \/ DeleteRun
    \/ /\ task.pc = "idle"
       /\ \E code \in StoreCodes : TouchRequest(code)
    \/ TouchRun
    \/ BackgroundRecompute
    \/ BackgroundSaveSelect
    \/ BackgroundSaveWrite
    \/ CronStep(StoreReads, PolicyOutcomes)

SpecStore == InitStore /\ [][NextStore]_vars

\* rows of a table value with the given code
RowsOf(pos, code) == {i \in 1..Len(pos) : pos[i].stockCode = code}

\* the step is the write of a save request
SaveWrites == task.op = "POST" /\ task.pc \in {"upsertSelect", "upsertWrite"}
                 /\ task'.pc = "upsertReturn"

\* the write of a save: an existing row of the code takes the name, cost and
\* share count of the body and keeps its place, id and createdAt; without an
\* existing row one row is added at the end; every other row is as before
UpsertEffect ==
    LET b == task.body
        old == RowsOf(positions, b.stockCode)
    IN  IF old # {}
        THEN /\ Len(positions') = Len(positions)
             /\ \A i \in 1..Len(positions) :
                   IF i \in old
                   THEN /\ positions'[i].stockCode = b.stockCode
                        /\ positions'[i].stockName = b.stockName
                        /\ positions'[i].costPrice = b.costPrice.num
                        /\ positions'[i].shares = b.shares.num
                        /\ positions'[i].id = positions[i].id
                        /\ positions'[i].createdAt = positions[i].createdAt
                   ELSE positions'[i] = positions[i]
        ELSE /\ Len(positions') = Len(positions) + 1
             /\ \A i \in 1..Len(positions) : positions'[i] = positions[i]
             /\ positions'[Len(positions')].stockCode = b.stockCode
             /\ positions'[Len(positions')].stockName = b.stockName
             /\ positions'[Len(positions')].costPrice = b.costPrice.num
             /\ positions'[Len(positions')].shares = b.shares.num

\* every code and every id has at most one row
OnePositionPerCode ==
    \A i, j \in 1..Len(positions) :
        (positions[i].stockCode = positions[j].stockCode \/ positions[i].id = positions[j].id)
            => i = j

\* C14: after any sequence of save, delete, touch and rename operations the
\* store holds at most one position per code; a save of an existing code
\* replaces name, cost and share count, keeps id and createdAt and leaves the
\* other positions unchanged; a save of a new code adds exactly one position.
C14_PositionUpsert ==
    /\ []OnePositionPerCode
    /\ [][SaveWrites => UpsertEffect]_vars

\* a code saved at tick 0, renamed or touched, and saved again at tick 2 with
\* other figures: the row has its first createdAt and the new values
C14_Witness ==
    /\ clock = 2
    /\ task.op = "POST"
    /\ task.pc = "done"
    /\ task.existing
    /\ \E i \in 1..Len(positions) :
          /\ positions[i].stockCode = task.body.stockCode
          /\ positions[i].createdAt = 0
          /\ positions[i].updatedAt = 2
          /\ positions[i].costPrice = MaxCost
          /\ positions[i].stockName = NEW_NAME
    /\ Len(positions) = 2

(***************************************************************************)
(* Specification SpecCache: a sequence of requests that write the price    *)
(* cache, one per tick: a save whose background task fetches a price       *)
(* (updateCachedPrice) and a refresh (updateBatchCachedPrices).  Two       *)
(* positions are tracked; no storage statement fails.                      *)
(***************************************************************************)
CacheBodies ==
    {[stockCode |-> code, stockName |-> NEW_NAME, costPrice |-> Num(1), shares |-> Num(1)] :
        code \in StoreCodes}

CacheOutcomes(code) ==
    {[kind |-> "none", price |-> Null, name |-> NullName]}
        \cup {[kind |-> "quote", price |-> Num(p), name |-> Str(NEW_NAME)] : p \in 1..MaxPrice}

InitCache ==
    /\ positions = <<PositionRow(FUND_A, 1, 1), PositionRow(STOCK_A, 1, 1)>>
    /\ price_cache \in {<<>>, [c \in {STOCK_A} |-> [price |-> 0, updatedAt |-> 0]]}
    /\ portfolio_cache = <<>>
    /\ snapshotRead = NoRead
    /\ cron = CronIdle
    /\ task = TaskIdle
    /\ reader = ReaderIdle
    /\ clock = 0
    /\ priceCache = <<>>
    /\ lookup = NoLookup
    /\ earlier = TaskIdle

NextCache ==
    \/ Tick
    \/ /\ task.pc = "idle"
       /\ \E body \in CacheBodies : PostRequest(body)
    \/ PostUpsertSelect
    \/ PostUpsertWrite
    \/ PostUpsertReturn
    \/ /\ task.pc = "bgFetch"
       /\ \E outcome \in CacheOutcomes(task.body.stockCode) : BackgroundFetchSettle(outcome)
    \/ BackgroundPriceSelect
    \/ BackgroundPriceWrite
    \/ BackgroundRecompute
    \/ BackgroundSaveSelect
    \/ BackgroundSaveWrite
    \/ CronStep(StoreReads, PolicyOutcomes)

SpecCache == InitCache /\ [][NextCache]_vars

\* the step is the statement of set(code, p): updateCachedPrice of the
\* background task, or the statement for (code, p) of updateBatchCachedPrices
SetBy(code, p, now) ==
    \/ /\ task.pc = "bgPriceWrite" /\ task'.pc = "bgRecompute"
       /\ task.body.stockCode = code /\ task.price = Num(p) /\ task.now = now
    \/ /\ cron.pc = "batchWrite" /\ cron'.pc \in {"batchSelect", "recompute"}
       /\ cron.validPrices[cron.i].code = code /\ cron.validPrices[cron.i].price = Num(p)
       /\ cron.now = now

\* C15: after set(code, p) or a batch holding (code, p), get(code) returns p,
\* stamped with the time of the write, until the next write to that code; a
\* write to one code leaves the price and timestamp of every other code
\* unchanged.
C15_PriceCacheWriteRead ==
    [][ \A code \in Codes :
          /\ \A p \in 0..MaxPrice :
                SetBy(code, p, clock) =>
                   /\ getCachedPriceFromDb(price_cache', code)
                         = <<[code |-> code, price |-> p, updatedAt |-> clock]>>
                   /\ \A other \in Codes \ {code} :
                         getCachedPriceFromDb(price_cache', other)
                            = getCachedPriceFromDb(price_cache, other)
          /\ getCachedPriceFromDb(price_cache', code) # getCachedPriceFromDb(price_cache, code)
                => \E p \in 0..MaxPrice : SetBy(code, p, clock) ]_vars

\* the equity price written at tick 0 by a save has been replaced at tick 2
\* by a refresh, which also created the fund's row
C15_Witness ==
    /\ clock = 2
    /\ cron.pc = "done"
    /\ cron.response.updated = <<2>>
    /\ getCachedPriceFromDb(cron.before, STOCK_A) # <<>>
    /\ getCachedPriceFromDb(cron.before, STOCK_A)[1].updatedAt < 2
    /\ getCachedPriceFromDb(cron.before, STOCK_A)[1].price # MaxPrice
    /\ getCachedPriceFromDb(cron.before, FUND_A) = <<>>
    /\ getCachedPriceFromDb(price_cache, STOCK_A)
          = <<[code |-> STOCK_A, price |-> MaxPrice, updatedAt |-> 2]>>
    /\ getCachedPriceFromDb(price_cache, FUND_A)
          = <<[code |-> FUND_A, price |-> MaxPrice, updatedAt |-> 2]>>

(***************************************************************************)
(* Specification SpecTtl: calls on the in-memory price cache (set, get,    *)
(* batch get) as time passes, and batch reads of the price_cache table     *)
(***************************************************************************)
MaxNow == 5       \* the clock runs from 0 to MaxNow ticks of ten seconds

\* the entries the Map held for the codes of a call, as 0 or 1 entries each
HadEntries(cache, codes) ==
    [c \in Range(codes) |-> IF c \in DOMAIN cache THEN <<cache[c]>> ELSE <<>>]

\* setCachedPrice(code, price) is called
SetCachedPriceCall(code, price) ==
    /\ priceCache' = setCachedPrice(priceCache, code, price, DateNow(clock))
    /\ lookup' = [op |-> "set", codes |-> <<code>>, at |-> DateNow(clock),
                  had |-> HadEntries(priceCache, <<code>>), result |-> <<>>]
    /\ UNCHANGED <<earlier, positions, price_cache, portfolio_cache, snapshotRead, cron, task, reader, clock>>

\* getCachedPrice(code) is called
GetCachedPriceCall(code) ==
    /\ priceCache' = AfterGetCachedPrice(priceCache, code, DateNow(clock))
    /\ lookup' = [op |-> "get", codes |-> <<code>>, at |-> DateNow(clock),
                  had |-> HadEntries(priceCache, <<code>>),
                  result |-> [c \in {code} |-> getCachedPrice(priceCache, code, DateNow(clock))]]
    /\ UNCHANGED <<earlier, positions, price_cache, portfolio_cache, snapshotRead, cron, task, reader, clock>>

\* getBatchCachedPrices(codes) is called
GetBatchCall(codes) ==
    /\ priceCache' = AfterGetBatch(priceCache, codes, DateNow(clock))
    /\ lookup' = [op |-> "getBatch", codes |-> codes, at |-> DateNow(clock),
                  had |-> HadEntries(priceCache, codes),
                  result |-> getBatchCachedPrices(priceCache, codes, DateNow(clock))]
    /\ UNCHANGED <<earlier, positions, price_cache, portfolio_cache, snapshotRead, cron, task, reader, clock>>

\* ten seconds pass
TtlTick ==
    /\ clock < MaxNow
    /\ clock' = clock + 1
    /\ UNCHANGED <<earlier, positions, price_cache, portfolio_cache, snapshotRead, cron, task, reader,
                   priceCache, lookup>>

TtlCodes == {FUND_A, STOCK_A}

\* the lists of codes asked for
TtlLists == {<<>>, <<FUND_A>>, <<STOCK_A>>, <<FUND_A, STOCK_A>>}

InitTtl ==
    /\ positions = <<>>
    /\ price_cache \in {[c \in S |-> [price |-> MaxPrice, updatedAt |-> 0]] :
                            S \in {{}, {STOCK_A}, {FUND_A, STOCK_A}}}
    /\ portfolio_cache = <<>>
    /\ snapshotRead = NoRead
    /\ cron = CronIdle
    /\ task = TaskIdle
    /\ reader = ReaderIdle
    /\ clock = 0
    /\ priceCache = <<>>
    /\ lookup = NoLookup
    /\ earlier = TaskIdle

NextTtl ==
    \/ TtlTick
    \/ \E code \in TtlCodes : SetCachedPriceCall(code, MaxPrice)
    \/ \E code \in TtlCodes : GetCachedPriceCall(code)
    \/ \E codes \in TtlLists : GetBatchCall(codes)

SpecTtl == InitTtl /\ [][NextTtl]_vars

\* the entry the Map held for the code when the call was made was no older
\* than 30 seconds
HadLive(code) ==
    /\ lookup.had[code] # <<>>
    /\ lookup.at - lookup.had[code][1].timestamp <= 30000

\* C16: the map a batch read returns has a key for a code exactly when the
\* code has a (live) entry, and never a key mapped to null; for the
\* price_cache table and for the in-memory cache.
C16_BatchRead ==
    /\ \A codes \in TtlLists :
          DOMAIN getBatchCachedPricesFromDb(price_cache, codes)
             = {c \in Range(codes) : c \in DOMAIN price_cache}
    /\ lookup.op = "getBatch" =>
          /\ DOMAIN lookup.result = {c \in Range(lookup.codes) : HadLive(c)}
          /\ \A c \in DOMAIN lookup.result : lookup.result[c] # Null

\* the call recorded in lookup has just been made by this step
CacheCall(op) ==
    /\ lookup'.op = op
    /\ (lookup' # lookup \/ priceCache' # priceCache)

\* a read returns the stored price exactly when an entry no older than 30
\* seconds was held, and an entry it found older than that is gone afterwards
GetAnswer ==
    lookup.op = "get" =>
        LET code == lookup.codes[1] IN
        /\ lookup.result[code] =
              (IF HadLive(code) THEN Num(lookup.had[code][1].price) ELSE Null)
        /\ (lookup.had[code] # <<>> /\ ~HadLive(code)) => code \notin DOMAIN priceCache

\* an entry comes into the cache only by a set of its code, stamped with the
\* time of the set; a set leaves every other code's entry as it was
SetEffect ==
    /\ \A c \in TtlCodes :
          (c \notin DOMAIN priceCache /\ c \in DOMAIN priceCache') =>
              CacheCall("set") /\ lookup'.codes = <<c>>
    /\ CacheCall("set") =>
          LET code == lookup'.codes[1] IN
          /\ code \in DOMAIN priceCache'
          /\ priceCache'[code] = [price |-> MaxPrice, timestamp |-> DateNow(clock)]
          /\ DOMAIN priceCache' = DOMAIN priceCache \cup {code}
          /\ \A c \in DOMAIN priceCache \ {code} : priceCache'[c] = priceCache[c]

\* C17: getCachedPrice returns the stored price if and only if an entry exists
\* and is at most 30 seconds old (exactly 30 seconds is still returned); a read
\* that finds an older entry returns null and removes it, the entry comes back
\* only by the next set, and a set stamps its own code only.
C17_TtlCache == []GetAnswer /\ [][SetEffect]_vars

\* an entry exactly 30 seconds old has been read and its price returned
C17_Witness ==
    /\ lookup.op = "get"
    /\ lookup.had[lookup.codes[1]] # <<>>
    /\ lookup.at - lookup.had[lookup.codes[1]][1].timestamp = 30000
    /\ lookup.result[lookup.codes[1]] = Num(MaxPrice)
    /\ lookup.codes[1] \in DOMAIN priceCache

\* the ids of a sequence of rows or items, in order
IdsOf(rows) == [i \in 1..Len(rows) |-> rows[i].id]

\* the items computed from a read of the store are in one of its listing orders
InListingOrder(data, read) ==
    read.done => IdsOf(data.items) \in {IdsOf(q) : q \in getAllPositions(read.positions)}

\* C20: in every snapshot a recompute makes, the items are in the listing
\* order of the position store, most recently touched position first.
C20_SnapshotItemOrder ==
    /\ InListingOrder(task.data, task.read)
    /\ InListingOrder(cron.data, cron.read)

\* the snapshot table holds no row or the one row 'main'
SnapshotSingleton ==
    /\ Len(portfolio_cache) <= 1
    /\ \A i \in 1..Len(portfolio_cache) : portfolio_cache[i].id = "main"

\* the data handed to savePortfolioCache by the save that writes in this step
SavedData == IF cron.pc = "saveWrite" THEN cron.data ELSE task.data

\* a save has written: a load now returns the data that was saved, whole
SaveThenLoad ==
    portfolio_cache' # portfolio_cache =>
        /\ getPortfolioCache(portfolio_cache') # <<>>
        /\ getPortfolioCache(portfolio_cache')[1].data = SavedData

\* C21: after any sequence of saves the snapshot table holds at most one
\* row, keyed 'main', and a load returns exactly the data of the latest
\* completed save; nothing of an earlier snapshot survives.
C21_SnapshotSingleton == []SnapshotSingleton /\ [][SaveThenLoad]_vars

\* a refresh found a stored snapshot and, at a later time, replaced it by
\* the one-item snapshot it had computed
C21_Witness ==
    /\ cron.pc = "done"
    /\ cron.response.kind = "updated"
    /\ cron.existing
    /\ clock > 0
    /\ portfolio_cache[1].updatedAt = clock
    /\ portfolio_cache[1].data = cron.data
    /\ Len(cron.data.items) = 1

(***************************************************************************)
(* Specification SpecRace: one refresh request and one save request whose  *)
(* handlers and background task overlap, statement by statement            *)
(***************************************************************************)
RaceBodies ==
    {[stockCode |-> code, stockName |-> NEW_NAME, costPrice |-> Num(MaxCost),
      shares |-> Num(MaxShares)] : code \in StoreCodes}

InitRace ==
    /\ positions = <<PositionRow(STOCK_A, 1, 1)>>
    /\ price_cache \in {[c \in S |-> [price |-> 1, updatedAt |-> 0]] : S \in {{}, {STOCK_A}}}
    /\ \/ /\ portfolio_cache = <<>>
          /\ snapshotRead = NoRead
       \/ /\ portfolio_cache = SavedSnapshot(positions, price_cache)
          /\ snapshotRead = ReadOf(positions, price_cache)
    /\ cron = CronIdle
    /\ task = TaskIdle
    /\ reader = ReaderIdle
    /\ clock = 0
    /\ priceCache = <<>>
    /\ lookup = NoLookup
    /\ earlier = TaskIdle

NextRace ==
    \/ /\ cron.pc = "idle"
       /\ \E force \in BOOLEAN, type \in TypeFilters : CronArrives(FALSE, "absent", force, type)
    \/ CronRun(StoreReads, PolicyOutcomes)
    \/ /\ task.pc = "idle"
       /\ \E body \in RaceBodies : PostArrives(body)
    \/ PostUpsertSelect
    \/ PostUpsertWrite
    \/ PostUpsertReturn
    \/ /\ task.pc = "bgFetch"
       /\ \E outcome \in PolicyOutcomes(task.body.stockCode) : BackgroundFetchSettle(outcome)
    \/ BackgroundPriceSelect
    \/ BackgroundPriceWrite
    \/ BackgroundRecompute
    \/ BackgroundSaveSelect
    \/ BackgroundSaveWrite
    \/ TaskStorageError

SpecRace == InitRace /\ [][NextRace]_vars

\* the refresh / the background task has run the UPDATE or INSERT of an
\* upsert, with the storage reachable
CronUpsertRan(pc) == cron.pc = pc /\ cron'.pc # pc /\ ~cron'.storageError
TaskUpsertRan(pc) == task.pc = pc /\ task'.pc # pc /\ ~task'.storageError

\* each upsert statement succeeds and leaves its key with the value written
UpsertsSucceed ==
    /\ CronUpsertRan("batchWrite") =>
          /\ cron'.response.status # 500
          /\ LET entry == cron.validPrices[cron.i]
             IN  /\ entry.code \in DOMAIN price_cache'
                 /\ price_cache'[entry.code].price = entry.price.num
    /\ CronUpsertRan("saveWrite") =>
          /\ cron'.response.status # 500
          /\ portfolio_cache' # <<>>
          /\ portfolio_cache'[1].data = JsonStringify(cron.data)
    /\ TaskUpsertRan("bgPriceWrite") =>
          /\ ~task'.logged
          /\ task.body.stockCode \in DOMAIN price_cache'
          /\ price_cache'[task.body.stockCode].price = task.price.num
    /\ TaskUpsertRan("bgSaveWrite") =>
          /\ ~task'.logged
          /\ portfolio_cache' # <<>>
          /\ portfolio_cache'[1].data = JsonStringify(task.data)
    /\ TaskUpsertRan("upsertWrite") =>
          /\ task'.status # 500
          /\ HasPosition(positions', task.body.stockCode)

\* C22: when two upserts of one key overlap (a price of one code, the
\* snapshot 'main', a position code), under every interleaving of their
\* statements both succeed, one row exists for the key afterwards and it
\* holds the value of one of the two writes, also when the key was new.
C22_ConcurrentUpserts ==
    /\ [](SnapshotSingleton /\ OnePositionPerCode)
    /\ [][UpsertsSucceed]_vars

\* no handler and no background task is running, none of them failed, and
\* at least one of them has recomputed and saved the snapshot
Quiescent ==
    /\ cron.pc \in {"idle", "done"}
    /\ task.pc \in {"idle", "done"}
    /\ ~cron.storageError /\ cron.response.status # 500
    /\ ~task.storageError /\ ~task.logged /\ task.status \notin {400, 500}
    /\ \/ cron.pc = "done" /\ cron.response.kind = "updated"
       \/ task.pc = "done" /\ task.op \in {"POST", "DELETE"}

\* the stored snapshot has exactly the current positions as items, each with
\* the cached price of its code
SnapshotIsCurrent ==
    /\ portfolio_cache # <<>>
    /\ LET items == portfolio_cache[1].data.items
       IN  /\ Len(items) = Len(positions)
           /\ \A i \in 1..Len(positions) : \E j \in 1..Len(items) :
                 /\ items[j].id = positions[i].id
                 /\ items[j].code = positions[i].stockCode
                 /\ items[j].name = positions[i].stockName
                 /\ items[j].costPrice = positions[i].costPrice
                 /\ items[j].shares = positions[i].shares
                 /\ items[j].currentPrice =
                       (IF HasPrice(price_cache, positions[i].stockCode)
                        THEN Num(price_cache[positions[i].stockCode].price)
                        ELSE Null)

\* C23: once every refresh and every background recompute that was started
\* has completed, overlapping ones included, the stored snapshot is the
\* aggregate of the current positions and the current price cache.
C23_QuiescentConsistency == Quiescent => SnapshotIsCurrent

\* the items are one per position of pos, each with the price cache holds
\* for its code (null without a row)
ImageOf(items, pos, cache) ==
    /\ Len(items) = Len(pos)
    /\ \A i \in 1..Len(pos) :
          /\ Cardinality({j \in 1..Len(items) : items[j].id = pos[i].id}) = 1
          /\ \E j \in 1..Len(items) :
                /\ items[j].id = pos[i].id
                /\ items[j].code = pos[i].stockCode
                /\ items[j].currentPrice =
                      (IF pos[i].stockCode \in DOMAIN cache
                       THEN Num(cache[pos[i].stockCode].price) ELSE Null)

\* a recompute step computes the image of the stores as they are in that step
RecomputeReadsOnce ==
    /\ (cron.pc = "recompute" /\ cron'.pc = "saveSelect") =>
          ImageOf(cron'.data.items, positions, price_cache)
    /\ (task.pc = "bgRecompute" /\ task'.pc = "bgSaveSelect") =>
          ImageOf(task'.data.items, positions, price_cache)

\* a save stores the items the recompute computed
SaveStoresImage ==
    /\ (CronUpsertRan("saveWrite") /\ cron'.response.status = 200) =>
          ImageOf(portfolio_cache'[1].data.items, cron.read.positions, cron.read.price_cache)
    /\ (TaskUpsertRan("bgSaveWrite") /\ ~task'.logged) =>
          ImageOf(portfolio_cache'[1].data.items, task.read.positions, task.read.price_cache)

\* C24: every snapshot a recompute saves has exactly one item per position
\* that existed at the one moment the recompute read the stores, priced with
\* the price cache of that moment, whether or not the code was fetched in
\* the cycle.
C24_SnapshotIsImage == [][RecomputeReadsOnce /\ SaveStoresImage]_vars

\* a refresh of type fund fetched the fund only, the fetch gave nothing, and
\* the saved snapshot prices both the fund and the equity from the cache
C24_Witness ==
    /\ cron.pc = "done"
    /\ cron.response.kind = "updated"
    /\ cron.codesToUpdate = <<FUND_A>>
    /\ cron.adapter[FUND_A].kind = "none"
    /\ snapshotRead = cron.read
    /\ Len(portfolio_cache[1].data.items) = 2
    /\ \A j \in 1..2 : portfolio_cache[1].data.items[j].currentPrice # Null

\* the step writes to the positions, the price cache or the snapshot
StoreWritten ==
    \/ positions' # positions
    \/ price_cache' # price_cache
    \/ portfolio_cache' # portfolio_cache

\* every fetch the cycle launched has settled
FetchesSettled ==
    /\ cron.codesToUpdate # <<>>
    /\ cron.pending = {}
    /\ DOMAIN cron.priceResults = Range(cron.codesToUpdate)

\* C26: within a refresh cycle no price write, no rename and no snapshot
\* write happens before every fetch launched by the cycle has settled.
C26_FetchBarrier == [][StoreWritten => FetchesSettled]_vars

\* three fetches were launched and have settled, one of them without a
\* price, and the cycle has since renamed a position and written a price
C26_Witness ==
    /\ Len(cron.codesToUpdate) = 3
    /\ FetchesSettled
    /\ \E code \in Range(cron.codesToUpdate) : cron.adapter[code].kind = "throws"
    /\ cron.pc = "batchSelect"
    /\ cron.i = 2
    /\ price_cache # cron.before
    /\ \E i \in 1..Len(positions) : positions[i].stockName = NEW_NAME

\* one adapter call per listed code, and the listed codes are distinct
OneCallPerCode ==
    /\ \A i, j \in 1..Len(cron.codesToUpdate) :
          cron.codesToUpdate[i] = cron.codesToUpdate[j] => i = j
    /\ Launched \subseteq Range(cron.codesToUpdate)
    /\ cron.pc \notin {"idle", "getCodes"} /\ cron.codesToUpdate # <<>>
          => /\ Launched = Range(cron.codesToUpdate)
             /\ Cardinality(Launched) = Len(cron.codesToUpdate)

\* a fetch that has settled is not started again
NoRetry ==
    \A code \in DOMAIN cron.adapter :
        /\ code \notin cron.pending'
        /\ code \in DOMAIN cron.adapter'
        /\ cron.adapter'[code] = cron.adapter[code]

\* every fetch of the cycle threw, returned nothing or returned a price
OnlySoftFailures ==
    \A code \in Range(cron.codesToUpdate) : FetchFailed(code) \/ FetchSucceeded(code)

\* the cycle ended in success, its failures counted
SoftFailure ==
    (CycleEnded /\ OnlySoftFailures /\ ~cron.storageError)
    => /\ cron.response.status = 200
       /\ cron.response.success
       /\ cron.response.failed =
             <<Cardinality({code \in Range(cron.codesToUpdate) : FetchFailed(code)})>>

\* C27: in every refresh cycle the adapter is called exactly once for each
\* eligible code (the codes are distinct, a failed fetch is not retried), and
\* fetches that throw or return nothing, all of them included, leave the
\* cycle a success with the failures counted in failed.
C27_OneFetchSoftFailure ==
    /\ [](OneCallPerCode /\ SoftFailure)
    /\ [][NoRetry]_vars

\* three codes were fetched once each; one call threw, the others returned
\* nothing; the cycle answered success with failed = 3
C27_Witness ==
    /\ CycleEnded
    /\ Len(cron.codesToUpdate) = 3
    /\ cron.adapter[FUND_A].kind = "throws"
    /\ cron.adapter[STOCK_A].kind = "none"
    /\ cron.adapter[STOCK_B].kind = "none"
    /\ cron.response.status = 200
    /\ cron.response.failed = <<3>>
    /\ cron.response.updated = <<0>>

\* the quote being handled in the loop over priceResults
ResultAt == cron.priceResults[cron.codesToUpdate[cron.i]]

\* the step in which updatePositionName fails / returns
NameUpdateFails == cron.pc = "results" /\ Truthy(ResultAt.name) /\ cron'.storageError
NameUpdateRuns == cron.pc = "results" /\ Truthy(ResultAt.name) /\ ~cron'.storageError

\* C29: a failed name update of some code neither changes the counts nor
\* keeps the cycle from writing the fetched prices and replacing the
\* snapshot: the cycle goes on; a name update that succeeds leaves the
\* position with the name of the quote.
C29_NameUpdateBestEffort ==
    [][ /\ NameUpdateFails =>
              /\ cron'.pc # "done"
              /\ cron'.response.status # 500
        /\ NameUpdateRuns =>
              \A i \in 1..Len(positions') :
                  positions'[i].stockCode = cron.codesToUpdate[cron.i]
                      => positions'[i].stockName = ResultAt.name.str ]_vars

\* the step in which a storage call of the cycle fails and the catch answers
CycleAborts == cron.pc \notin {"idle", "done"} /\ cron'.pc = "done" /\ cron'.response.status = 500

\* C30: when a storage call fails inside a refresh cycle the cycle returns a
\* hard failure and writes nothing after the failing step: the snapshot is
\* not replaced, and when the failure is in the batched price write no price
\* of the batch is left in the price cache.
C30_StorageFailureAborts ==
    /\ [][ /\ CycleAborts =>
                 /\ ~cron'.response.success
                 /\ cron'.response.updated = <<>> /\ cron'.response.failed = <<>>
                 /\ UNCHANGED <<positions, price_cache, portfolio_cache>>
                 /\ cron.pc \in {"batchSelect", "batchWrite"} => price_cache' = cron.before
           /\ (cron.pc = "done" /\ cron.response.status = 500) =>
                 UNCHANGED <<positions, price_cache, portfolio_cache>> ]_vars
    /\ [](cron.pc = "done" /\ cron.response.status = 500
             => portfolio_cache \in {<<>>, EmptySnapshot})

\* C25: a refresh over a non-empty tracked set in which no code is eligible
\* still recomputes and replaces the snapshot before it returns its
\* nothing-to-do result.
C25_NothingDueRecomputes ==
    (cron.pc = "done" /\ cron.response = NothingDueResponse /\ ~cron.storageError)
    => /\ cron.read.done
       /\ portfolio_cache # <<>>
       /\ portfolio_cache[1].data =
             JsonStringify(PortfolioData(getAllPositionsWithPrices(positions, price_cache)))

(***************************************************************************)
(* Specification SpecQuotes: one refresh request over a fund and an        *)
(* equity, with every outcome the two adapters can have, the fund response *)
(* without net-worth data included                                         *)
(***************************************************************************)
QuoteOutcomes(code) ==
    AdapterOutcomes(code) \cup (IF AdapterOf(code) = "fetchFundData" THEN FundNoTrend ELSE {})

InitQuotes ==
    /\ positions = <<PositionRow(FUND_A, 1, 1), PositionRow(STOCK_A, 1, 1)>>
    /\ price_cache \in {[c \in S |-> [price |-> MaxPrice, updatedAt |-> 0]] :
                            S \in {{}, {FUND_A, STOCK_A}}}
    /\ portfolio_cache = <<>>
    /\ snapshotRead = NoRead
    /\ cron = CronIdle
    /\ task = TaskIdle
    /\ reader = ReaderIdle
    /\ clock = 0
    /\ priceCache = <<>>
    /\ lookup = NoLookup
    /\ earlier = TaskIdle

NextQuotes == CronStep(SampleReads, QuoteOutcomes)

SpecQuotes == InitQuotes /\ [][NextQuotes]_vars

\* the provider reported a numeric price for the code
RealPrice(code) ==
    cron.adapter[code].kind = "quote" /\ IsFinite(cron.adapter[code].price)

\* C28: a fetch that ends in an exception, no quote, a response without a
\* price (a fund response without net-worth data) or a NaN price is counted
\* in failed and nothing is written to the price cache for its code; every
\* price the refresh writes is a numeric price the provider reported.
C28_OnlyRealPrices ==
    (CycleEnded /\ ~cron.storageError)
    => /\ cron.response.status = 200
       /\ cron.response.failed =
             <<Cardinality({code \in Range(cron.codesToUpdate) : ~RealPrice(code)})>>
       /\ \A code \in Range(cron.codesToUpdate) :
             IF RealPrice(code)
             THEN /\ HasPrice(price_cache, code)
                  /\ price_cache[code].price = cron.adapter[code].price.num
             ELSE SameEntry(price_cache, cron.before, code)

\* the step in which getAllPositionCodes() returns the empty list
ReadsNoCodes == cron.pc = "getCodes" /\ positions = <<>> /\ ~cron'.storageError

\* C31: a refresh invoked when no code is tracked returns success with zero
\* updates, calls no adapter and leaves the price cache and the snapshot
\* table exactly as they were.
C31_EmptyPortfolioNoOp ==
    /\ [][ReadsNoCodes =>
             /\ cron'.pc = "done"
             /\ cron'.response.status = 200
             /\ cron'.response.success
             /\ cron'.response.updated = <<0>>
             /\ cron'.pending = {} /\ cron'.via = <<>> /\ cron'.adapter = <<>>
             /\ UNCHANGED <<positions, price_cache, portfolio_cache>>]_vars
    /\ []((cron.pc = "done" /\ cron.allCodes = <<>> /\ cron.response.status = 200)
             => /\ price_cache = cron.before
                /\ Launched = {}
                /\ ~cron.read.done)

\* a refresh over an empty position table has answered; the price cache
\* still has its rows and the snapshot table its row
C31_Witness ==
    /\ cron.pc = "done"
    /\ positions = <<>>
    /\ cron.response = NoPositionsResponse
    /\ DOMAIN price_cache = Codes
    /\ price_cache = cron.before
    /\ portfolio_cache = EmptySnapshot

\* every code that has a cached price keeps a cached price
PricesKept == \A code \in DOMAIN price_cache : code \in DOMAIN price_cache'

\* the snapshot saved by the background task of a save shows the cached
\* price of the saved code, when there is one
SavedCodePriced ==
    (TaskUpsertRan("bgSaveWrite") /\ ~task'.logged /\ task.op = "POST"
        /\ task.body.stockCode \in DOMAIN task.read.price_cache)
    => \E j \in 1..Len(portfolio_cache'[1].data.items) :
          /\ portfolio_cache'[1].data.items[j].code = task.body.stockCode
          /\ portfolio_cache'[1].data.items[j].currentPrice =
                Num(task.read.price_cache[task.body.stockCode].price)

\* C32: no operation (refresh, save, delete, touch, rename, recompute)
\* removes a row of the price_cache table, so the set of codes with a cached
\* price only grows, and a code that is deleted and saved again has its old
\* cached price in the next snapshot.
C32_PricesNeverRemoved == [][PricesKept /\ SavedCodePriced]_vars

\* a code priced by a refresh at tick 0 was deleted, then saved again at
\* tick 2 with a background fetch that gave nothing: the snapshot saved
\* after it has the price cached at tick 0
C32_Witness ==
    /\ clock = 2
    /\ task.op = "POST"
    /\ task.pc = "done"
    /\ ~task.logged
    /\ snapshotRead = task.read
    /\ task.body.stockCode \in DOMAIN price_cache
    /\ price_cache[task.body.stockCode].updatedAt = 0
    /\ \E i \in 1..Len(positions) :
          /\ positions[i].stockCode = task.body.stockCode
          /\ positions[i].createdAt = 2
    /\ \E j \in 1..Len(portfolio_cache[1].data.items) :
          /\ portfolio_cache[1].data.items[j].code = task.body.stockCode
          /\ portfolio_cache[1].data.items[j].currentPrice =
                Num(price_cache[task.body.stockCode].price)

\* the success response of a save or delete has been sent
Responded == task.op \in {"POST", "DELETE"} /\ task.status = 200

\* the response is sent right after the store write, before any step of the
\* background task
RespondsAtOnce ==
    (task.status # 200 /\ task'.status = 200) =>
        /\ task.pc \in {"upsertReturn", "delete"}
        /\ task'.pc \in {"bgFetch", "bgRecompute"}
        /\ ~task'.read.done /\ ~task'.logged

\* whatever the background task does, the response stays and the position
\* write is not undone
ResponseStands ==
    Responded =>
        /\ task'.status = 200
        /\ task'.result = task.result
        /\ positions' = positions

\* the response of a save carries the saved position
CarriesPosition ==
    (Responded /\ task.op = "POST") =>
        /\ Len(task.result) = 1
        /\ task.result[1].stockCode = task.body.stockCode
        /\ task.result[1].stockName = task.body.stockName
        /\ task.result[1].costPrice = task.body.costPrice.num
        /\ task.result[1].shares = task.body.shares.num
        /\ PositionByCode(positions, task.body.stockCode) = task.result

\* C33: the response of a successful save or delete is produced as soon as
\* the position write is done; under every outcome of the background fetch,
\* price write and recompute it is the same success carrying the saved
\* position, and a background failure never undoes the position write.
C33_FireAndForget ==
    /\ [][RespondsAtOnce /\ ResponseStands]_vars
    /\ []CarriesPosition
    /\ []((Responded /\ task.op = "DELETE") => ~HasPosition(positions, task.body.stockCode))

\* a save answered 200 with the new position, its background task then
\* failed on storage and logged the error; the position is stored
C33_Witness ==
    /\ Responded
    /\ task.op = "POST"
    /\ task.pc = "done"
    /\ task.logged
    /\ task.storageError
    /\ task.price # Null
    /\ ~task.read.done
    /\ PositionByCode(positions, task.body.stockCode) = task.result
    /\ task.result[1].costPrice = MaxCost

(***************************************************************************)
(* Specification SpecOverlap: a save has returned and its background task  *)
(* is still running while one more position request is handled             *)
(***************************************************************************)
\* the background task of the earlier save: the fetch settles
EarlierFetchSettle(outcome) ==
    /\ earlier.pc = "bgFetch"
    /\ LET price == fetchAssetPrice(earlier.body.stockCode, outcome)
       IN  earlier' = [earlier EXCEPT !.price = price,
                                      !.pc = BackgroundNext(price)]
    /\ UNCHANGED <<positions, price_cache, portfolio_cache, snapshotRead, cron, task, reader, clock,
                   priceCache, lookup>>

\* updateCachedPrice: SELECT code FROM price_cache WHERE code = ?
EarlierPriceSelect ==
    /\ earlier.pc = "bgPriceSelect"
    /\ earlier' = [earlier EXCEPT !.existing = HasPrice(price_cache, earlier.body.stockCode),
                                  !.now = clock,
                                  !.pc = "bgPriceWrite"]
    /\ UNCHANGED <<positions, price_cache, portfolio_cache, snapshotRead, cron, task, reader, clock,
                   priceCache, lookup>>

\* updateCachedPrice: the UPDATE or INSERT
EarlierPriceWrite ==
    /\ earlier.pc = "bgPriceWrite"
    /\ IF PriceWriteRejected(price_cache, earlier.body.stockCode, earlier.price, earlier.existing)
       THEN /\ earlier' = TaskBackgroundFailed(earlier)
            /\ UNCHANGED price_cache
       ELSE /\ price_cache' = PriceWrite(price_cache, earlier.body.stockCode, earlier.price,
                                         earlier.existing, earlier.now)
            /\ earlier' = [earlier EXCEPT !.pc = "bgRecompute"]
    /\ UNCHANGED <<positions, portfolio_cache, snapshotRead, cron, task, reader, clock,
                   priceCache, lookup>>

\* updatePortfolioCache: getAllPositionsWithPrices() returns, items and
\* summary are computed
EarlierRecompute ==
    /\ earlier.pc = "bgRecompute"
    /\ earlier' = [earlier EXCEPT
                      !.data = PortfolioData(getAllPositionsWithPrices(positions, price_cache)),
                      !.read = [done |-> TRUE, positions |-> positions, price_cache |-> price_cache],
                      !.pc = "bgSaveSelect"]
    /\ UNCHANGED <<positions, price_cache, portfolio_cache, snapshotRead, cron, task, reader, clock,
                   priceCache, lookup>>

\* savePortfolioCache: SELECT id FROM portfolio_cache WHERE id = 'main'
EarlierSaveSelect ==
    /\ earlier.pc = "bgSaveSelect"
    /\ earlier' = [earlier EXCEPT !.existing = (portfolio_cache # <<>>), !.now = clock,
                                  !.pc = "bgSaveWrite"]
    /\ UNCHANGED <<positions, price_cache, portfolio_cache, snapshotRead, cron, task, reader, clock,
                   priceCache, lookup>>

\* savePortfolioCache: the UPDATE or INSERT
EarlierSaveWrite ==
    /\ earlier.pc = "bgSaveWrite"
    /\ IF SnapshotWriteRejected(portfolio_cache, earlier.existing)
       THEN /\ earlier' = TaskBackgroundFailed(earlier)
            /\ UNCHANGED <<portfolio_cache, snapshotRead>>
       ELSE /\ portfolio_cache' =
                   SnapshotWrite(portfolio_cache, JsonStringify(earlier.data), earlier.existing,
                                 earlier.now)
            /\ snapshotRead' = earlier.read
            /\ earlier' = [earlier EXCEPT !.pc = "done"]
    /\ UNCHANGED <<positions, price_cache, cron, task, reader, clock, priceCache, lookup>>

\* the save of STOCK_A has stored its row and answered; its background task
\* is about to fetch the price
EarlierSave ==
    [TaskIdle EXCEPT
        !.pc = "bgFetch", !.op = "POST", !.status = 200,
        !.body = [stockCode |-> STOCK_A, stockName |-> OLD_NAME,
                  costPrice |-> Num(1), shares |-> Num(1)],
        !.result = <<PositionRow(STOCK_A, 1, 1)>>]

InitOverlap ==
    /\ positions \in {<<PositionRow(STOCK_A, 1, 1)>>,
                      <<PositionRow(FUND_A, 1, 1), PositionRow(STOCK_A, 1, 1)>>}
    /\ price_cache \in {[c \in S |-> [price |-> 1, updatedAt |-> 0]] : S \in {{}, {STOCK_A}}}
    /\ portfolio_cache = <<>>
    /\ snapshotRead = NoRead
    /\ cron = CronIdle
    /\ task = TaskIdle
    /\ reader = ReaderIdle
    /\ clock = 0
    /\ priceCache = <<>>
    /\ lookup = NoLookup
    /\ earlier = EarlierSave

NextOverlap ==
    \/ \E outcome \in PolicyOutcomes(earlier.body.stockCode) : EarlierFetchSettle(outcome)
    \/ EarlierPriceSelect
    \/ EarlierPriceWrite
    \/ EarlierRecompute
    \/ EarlierSaveSelect
    \/ EarlierSaveWrite
    \/ \E code \in StoreCodes : DeleteRequest(code)
    \/ DeleteRun
    \/ \E body \in RaceBodies : PostArrives(body)
    \/ PostUpsertSelect
    \/ PostUpsertWrite
    \/ PostUpsertReturn
    \/ /\ task.pc = "bgFetch"
       /\ \E outcome \in PolicyOutcomes(task.body.stockCode) : BackgroundFetchSettle(outcome)
    \/ BackgroundPriceSelect
    \/ BackgroundPriceWrite
    \/ BackgroundRecompute
    \/ BackgroundSaveSelect
    \/ BackgroundSaveWrite
    \/ TaskStorageError

SpecOverlap == InitOverlap /\ [][NextOverlap]_vars

\* the snapshot has an item for the code
SnapshotHasItem(code) ==
    /\ portfolio_cache # <<>>
    /\ \E i \in 1..Len(portfolio_cache[1].data.items) :
           portfolio_cache[1].data.items[i].code = code

\* the delete has answered 200, its background task and the one of the
\* earlier save have run to their end, and no later request followed
DeleteSettled ==
    /\ task.op = "DELETE" /\ task.status = 200
    /\ task.pc = "done" /\ ~task.logged
    /\ earlier.pc = "done" /\ ~earlier.logged

\* C34: once the background task of a successful delete and the background
\* tasks of every earlier or concurrent save have completed, the snapshot
\* has no item for the deleted code, under every interleaving of the tasks.
C34_DeletedLeavesSnapshot ==
    DeleteSettled => ~SnapshotHasItem(task.body.stockCode)

\* the save has answered 200 and its background task has run to its end
\* without an error
SaveSettled ==
    /\ task.op = "POST" /\ task.status = 200
    /\ task.pc = "done" /\ ~task.logged

\* the items of the stored snapshot for the code
ItemsOfCode(code) ==
    IF portfolio_cache = <<>> THEN <<>>
    ELSE SelectSeq(portfolio_cache[1].data.items, LAMBDA item : item.code = code)

\* C35: with nothing else in flight, once the background task of a
\* successful save has completed without a storage error the snapshot has
\* exactly one item for the saved code, with the cost and quantity of the
\* save, whether or not the price fetch succeeded; its current price is the
\* cached price, null if no price is cached for the code.
C35_SavedReachesSnapshot ==
    SaveSettled =>
        LET code == task.body.stockCode
            items == ItemsOfCode(code)
        IN  /\ Len(items) = 1
            /\ items[1].costPrice = task.body.costPrice.num
            /\ items[1].shares = task.body.shares.num
            /\ items[1].currentPrice =
                   (IF HasPrice(price_cache, code) THEN Num(price_cache[code].price) ELSE Null)
            /\ task.price # Null => items[1].currentPrice = task.price

\* a new position was saved, the fetch gave no price and none is cached: the
\* snapshot has its item with a null current price
C35_Witness ==
    /\ SaveSettled
    /\ task.price = Null
    /\ ~task.existing
    /\ ~HasPrice(price_cache, task.body.stockCode)
    /\ Len(ItemsOfCode(task.body.stockCode)) = 1
    /\ ItemsOfCode(task.body.stockCode)[1].currentPrice = Null
    /\ ItemsOfCode(task.body.stockCode)[1].costPrice = MaxCost
    /\ Len(portfolio_cache[1].data.items) = 2

(***************************************************************************)
(* Specification SpecScheduled: one Cron Trigger handled by the worker     *)
(* entry (src/worker.ts); the clock counts hours                           *)
(***************************************************************************)
\* new Date(event.scheduledTime).getUTCHours()
getUTCHours(t) == t % 24

\* const type = hour === 12 ? "fund" : "stock"
ScheduledType(hour) == IF hour = 12 THEN "fund" ELSE "stock"

\* scheduled(): the request GET /api/cron/update-prices?type=<type>, built
\* without headers, is passed to worker.fetch
Scheduled(secretSet) ==
    CronArrives(secretSet, "absent", FALSE, ScheduledType(getUTCHours(clock)))

\* the hours at which a trigger fires: 01:00, 07:00, 12:00 UTC, and 12:00
\* of the next day
ScheduledTimes == {1, 7, 12, 36}

InitScheduled ==
    /\ positions \in {[i \in 1..Len(cs) |-> PositionRow(cs[i], 1, 1)] :
                         cs \in SubSeqs(<<FUND_A, STOCK_A>>)}
    /\ price_cache \in {[c \in S |-> [price |-> MaxPrice, updatedAt |-> 0]] :
                           S \in {{}, {STOCK_A}}}
    /\ portfolio_cache = <<>>
    /\ snapshotRead = NoRead
    /\ cron = CronIdle
    /\ task = TaskIdle
    /\ reader = ReaderIdle
    /\ clock \in ScheduledTimes
    /\ priceCache = <<>>
    /\ lookup = NoLookup
    /\ earlier = TaskIdle

NextScheduled ==
    \/ \E secretSet \in BOOLEAN : Scheduled(secretSet)
    \/ CronRun(SampleReads, PolicyOutcomes)

SpecScheduled == InitScheduled /\ [][NextScheduled]_vars

\* C36: every scheduled trigger makes the refresh endpoint run a refresh, of
\* type fund when the hour of the trigger is 12 UTC and of type stock
\* otherwise, and is never rejected as unauthorized, whether or not a cron
\* secret is configured.
C36_ScheduledRefreshRuns ==
    cron.pc # "idle" =>
        /\ cron.response.status # 401
        /\ cron.typeFilter = (IF getUTCHours(clock) = 12 THEN "fund" ELSE "stock")

(***************************************************************************)
(* Specification SpecAuth: one refresh request; the secret of the          *)
(* deployment and the authorization header of the request are fixed        *)
(* beforehand                                                              *)
(***************************************************************************)
InitAuth ==
    /\ positions \in {[i \in 1..Len(cs) |-> PositionRow(cs[i], 1, 1)] :
                         cs \in SubSeqs(<<FUND_A, STOCK_A>>)}
    /\ price_cache \in {[c \in S |-> [price |-> MaxPrice, updatedAt |-> 0]] :
                           S \in {{}, {STOCK_A}}}
    /\ portfolio_cache \in {<<>>, EmptySnapshot}
    /\ snapshotRead = NoRead
    /\ cron \in {[CronIdle EXCEPT !.cronSecret = s, !.authHeader = h] :
                    s \in BOOLEAN, h \in AuthHeaders}
    /\ task = TaskIdle
    /\ reader = ReaderIdle
    /\ clock = 0
    /\ priceCache = <<>>
    /\ lookup = NoLookup
    /\ earlier = TaskIdle

NextAuth ==
    \/ \E force \in BOOLEAN, type \in TypeFilters :
           CronRequest(cron.cronSecret, cron.authHeader, force, type)
    \/ CronRun(SampleReads, PolicyOutcomes)

SpecAuth == InitAuth /\ [][NextAuth]_vars

\* a secret is configured and the header of the request is not 'Bearer <secret>'
NotAuthorized == cron.cronSecret /\ cron.authHeader # "match"

\* the request is answered 401 at once: no code is read, no adapter is called
RejectedAtOnce ==
    cron.pc # "idle" =>
        /\ cron.pc = "done"
        /\ cron.response = Response(401, FALSE, "Unauthorized", <<>>, <<>>)
        /\ cron.pending = {} /\ cron.adapter = <<>> /\ cron.priceResults = <<>>
        /\ ~cron.read.done

\* C37: when a cron secret is configured, a refresh request whose
\* authorization header is not exactly 'Bearer <secret>' is rejected, calls no
\* adapter and leaves the position store, the price cache and the snapshot
\* unchanged; when no secret is configured every request is accepted.
C37_UnauthorizedNoEffect ==
    /\ [](NotAuthorized => RejectedAtOnce)
    /\ [][NotAuthorized => UNCHANGED <<positions, price_cache, portfolio_cache>>]_vars
    /\ []((~cron.cronSecret /\ cron.pc # "idle") => cron.response.status # 401)

\* a request with a wrong header was rejected with positions tracked and a
\* refresh that would have had a code to fetch
C37_Witness ==
    /\ cron.cronSecret /\ cron.authHeader = "wrong"
    /\ cron.pc = "done" /\ cron.response.status = 401
    /\ Len(positions) = 2
    /\ portfolio_cache = <<>>

\* the step is the UPDATE of a touch request
TouchWrites == task.pc = "touch" /\ task'.pc = "done"

\* a touch stamps the rows of its code with the current time and changes
\* nothing else
TouchStampsOnly ==
    TouchWrites =>
        /\ Len(positions') = Len(positions)
        /\ \A i \in 1..Len(positions) :
               positions'[i] = IF positions[i].stockCode = task.body.stockCode
                               THEN [positions[i] EXCEPT !.updatedAt = clock]
                               ELSE positions[i]
        /\ ~HasPosition(positions, task.body.stockCode) => positions' = positions
        /\ UNCHANGED <<price_cache, portfolio_cache>>

\* a step of the refresh writes at most names into the position store
RenameNamesOnly ==
    cron' # cron =>
        /\ Len(positions') = Len(positions)
        /\ \A i \in 1..Len(positions) :
               positions'[i] = [positions[i] EXCEPT !.stockName = positions'[i].stockName]

\* renaming a code that has no position changes nothing
RenameOfMissing ==
    \A code \in Codes :
        ~HasPosition(positions, code) =>
            updatePositionName(positions, code, NEW_NAME) = positions

\* every listing holds each position once, in descending order of updatedAt,
\* so that no position is more recently saved or touched than the first
ListedDescending ==
    \A q \in getAllPositions(positions) :
        /\ Len(q) = Len(positions)
        /\ \A i \in 1..Len(positions) : \E j \in 1..Len(q) : q[j] = positions[i]
        /\ \A i, j \in 1..Len(q) : i < j => q[i].updatedAt >= q[j].updatedAt
        /\ \A i \in 1..Len(q) : q[1].updatedAt >= positions[i].updatedAt

\* C38: a touch sets only the updatedAt of the position of its code, to the
\* current time, and changes no other field, no other position, no cached
\* price and no snapshot; touching or renaming a code without a position
\* changes nothing; a rename changes only the name and leaves updatedAt; the
\* listing of positions is always in descending order of updatedAt, the most
\* recently saved or touched position first.
C38_TouchAndListingOrder ==
    /\ [][TouchStampsOnly /\ RenameNamesOnly]_vars
    /\ [](RenameOfMissing /\ ListedDescending)

\* the position stored second was touched at a later time: it is listed
\* first, and the other position is as it was
C38_Witness ==
    /\ task.op = "PATCH" /\ task.pc = "done" /\ task.status = 200
    /\ Len(positions) = 2
    /\ positions[2].stockCode = task.body.stockCode
    /\ positions[2].updatedAt = clock
    /\ positions[1].updatedAt < clock
    /\ \A q \in getAllPositions(positions) : q[1] = positions[2]

\* the step is the snapshot write that ends the recompute of a background
\* task p / of the refresh
RecomputeSaves(p, q) == p.pc = "bgSaveWrite" /\ q.pc = "done" /\ ~q.logged
CronRecomputeSaves == cron.pc = "saveWrite" /\ cron'.pc = "done" /\ cron'.response.status = 200

\* the step is a step of the recompute of a background task p / of the refresh
RecomputeSteps(p, q) == p.pc \in {"bgRecompute", "bgSaveSelect", "bgSaveWrite"} /\ q # p
CronRecomputeSteps == cron.pc \in {"recompute", "saveSelect", "saveWrite"} /\ cron' # cron

\* a recompute that read the stores as the previous one had read them stores
\* the items, summary and hasPrices that are stored already
SecondRunSame ==
    ( /\ \/ CronRecomputeSaves
         \/ RecomputeSaves(task, task')
         \/ RecomputeSaves(earlier, earlier')
      /\ portfolio_cache # <<>> /\ snapshotRead.done
      /\ snapshotRead'.positions = snapshotRead.positions
      /\ snapshotRead'.price_cache = snapshotRead.price_cache )
    => /\ Len(portfolio_cache') = 1
       /\ portfolio_cache'[1].data.items = portfolio_cache[1].data.items
       /\ portfolio_cache'[1].data.summary = portfolio_cache[1].data.summary
       /\ portfolio_cache'[1].data.hasPrices = portfolio_cache[1].data.hasPrices

\* no step of a recompute writes the position store or the price cache
RecomputeKeepsStores ==
    (CronRecomputeSteps \/ RecomputeSteps(task, task') \/ RecomputeSteps(earlier, earlier'))
        => UNCHANGED <<positions, price_cache>>

====
